---- MODULE Spec2Model ----
(***************************************************************************)
(* Model of grudge/symbolic/compiler.py: the instruction taxonomy, and the *)
(* Code object with its dynamic scheduler (execute_dynamic, get_next_step) *)
(* and its static schedule replay (execute).                               *)
(*                                                                         *)
(* One Code object is built in Init and then executed any number of times.  *)
(* Every iteration of the scheduler loop is one action; between two        *)
(* iterations the environment may make a pending Future ready.             *)
(***************************************************************************)
EXTENDS Integers, Sequences, FiniteSets, TLC

VARIABLES
    instructions,               \* Code.instructions: sequence of instruction records
    result,                     \* Code.result: the variable names of the result expression
    last_schedule,              \* Code.last_schedule: None or a sequence of triples
    static_schedule_attempts,   \* Code.static_schedule_attempts
    pc,                         \* "idle" | "dynamic" | "static" | "returned" | "raised"
    error,                      \* the exception that ended the last call, "" if none
    retval,                     \* the value execute returned
    context,                    \* exec_mapper.context: name -> value
    pre_assign_check,           \* the hook passed to execute: "none" | "check"
    futures,                    \* pending futures (list `futures` / dict `id_to_future`)
    next_future_id,
    done_insns,                 \* execute_dynamic's done_insns (indices into instructions)
    force_future,
    schedule,                   \* the schedule being recorded by execute_dynamic
    position,                   \* index of the next entry of last_schedule to replay
    schedule_is_delay_free,
    trace,                      \* history: what each step of the current call did
    call,                       \* history: how the current call was started
    recorded,                   \* history: the dynamic run that recorded last_schedule
    failed_replays,             \* history: number of replays that ended not delay-free
    printed,                    \* the instructions the last call printed as unreachable
    discr,                      \* the discretization: its name generator and name cache
    compilations,               \* history: what each OperatorCompiler call took and gave
    aggregation,                \* a call of aggregate_assignments: its arguments and locals
    str_call                    \* a call of Code.__str__: its locals and how it ended

vars == <<instructions, result, last_schedule, static_schedule_attempts, pc, error,
          retval, context, pre_assign_check, futures, next_future_id, done_insns,
          force_future, schedule, position, schedule_is_delay_free, trace, call,
          recorded, failed_replays, printed, discr, compilations, aggregation,
          str_call>>

\* last_schedule is None or a list of triples
None == [is_none |-> TRUE, entries |-> <<>>]
Schedule(entries) == [is_none |-> FALSE, entries |-> entries]

\* retval while execute has returned nothing
NoValue == [n \in {} |-> n]

\* ------------------------------------------------------------------ bounds

\* longest chain of Futures one instruction starts (a Future's completion may
\* yield a new Future)
MaxStages == 2

\* ------------------------------------------------------- program constants

\* Code.__init__: self.static_schedule_attempts = 5
InitialAttempts == 5

\* FluxExchangeBatchAssign.priority
FluxExchangePriority == 1

\* ------------------------------------------------------------ instructions

\* An instruction: the names it assigns (in order), the names its expressions
\* depend on, its priority, its class, and what its execution method (supplied
\* by the exec_mapper) does: stages = 0 returns the assignments at once,
\* stages = k > 0 returns no assignment and one Future, the first of a chain of
\* k Futures, the last of which yields the assignments; flaky: the execution
\* method chooses between stages 0 and 1 on each execution.
Insn(names, deps, priority, kind, stages, flaky) ==
    [names |-> names, deps |-> deps, priority |-> priority, kind |-> kind,
     stages |-> stages, flaky |-> flaky]

Assign(names, deps, priority, stages) ==
    Insn(names, deps, priority, "Assign", stages, FALSE)

FluxExchangeBatchAssign(names, arg_fields) ==
    Insn(names, arg_fields, FluxExchangePriority, "FluxExchangeBatchAssign", 1, FALSE)

\* Instruction.get_assignees
get_assignees(insn) == {insn.names[k] : k \in 1..Len(insn.names)}

\* FluxExchangeBatchAssign.get_dependencies calls _make_dep_mapper() without its
\* required argument include_subscripts: the call raises TypeError.
get_dependencies_raises(insn) == insn.kind = "FluxExchangeBatchAssign"

\* Assign.get_dependencies / DiffBatchAssign.get_dependencies
get_dependencies(insn) == insn.deps

\* The instruction sets under test: one instruction (or none) per assigned name.
SlotA ==
    { <<>>,
      <<Assign(<<"a">>, {"x"}, 0, 0)>>,
      <<Assign(<<"a">>, {"x"}, 1, 1)>>,
      <<Assign(<<"a">>, {"c"}, 0, 0)>>,
      <<FluxExchangeBatchAssign(<<"a">>, {"x"})>> }

SlotB ==
    { <<>>,
      <<Assign(<<"b">>, {"a"}, 0, 0)>>,
      <<Assign(<<"b">>, {"x"}, 1, 0)>>,
      <<Insn(<<"b">>, {"y"}, 0, "Assign", 0, TRUE)>> }
    \cup { <<Assign(<<"b">>, {"x"}, 0, k)>> : k \in 1..MaxStages }

SlotC ==
    { <<>>,
      <<Assign(<<"c">>, {"b"}, 0, 0)>>,
      <<Assign(<<"c">>, {"a", "b"}, 0, 0)>>,
      <<Assign(<<"c", "d">>, {"x"}, 0, 0)>> }

Programs ==
    { a \o b \o c : a \in SlotA, b \in SlotB, c \in SlotC }
    \cup { c \o b \o a : a \in SlotA, b \in SlotB, c \in SlotC }

Results == { {"c"}, {"x", "b"} }

\* the key sets of the contexts execute is called with: the input alone, or
\* with a name nothing depends on and a stale binding of an assigned name
ContextKeySets == { {"x"}, {"x", "y", "a"} }

\* the name the pre-assign hook "check" rejects
RejectedName == "b"

\* ------------------------------------------------------------------ values

InputValue(n) == [op |-> n, args |-> [d \in {} |-> d]]

\* the value an expression with operands deps evaluates to in ctx
Value(name, deps, ctx) == [op |-> name, args |-> [d \in deps |-> ctx[d]]]

Restrict(ctx, keys) == [n \in keys |-> ctx[n]]

Bind(ctx, name, value) ==
    [n \in DOMAIN ctx \cup {name} |-> IF n = name THEN value ELSE ctx[n]]

\* ---------------------------------------------------------- get_next_step

Indices == 1..Len(instructions)

\* mutant of argmax2: ties go to the last instruction of the list
argmax2_LastOfTies(available_insns) ==
    CHOOSE i \in available_insns :
        \A j \in available_insns :
            \/ instructions[j].priority < instructions[i].priority
            \/ instructions[j].priority = instructions[i].priority /\ i >= j

\* argmax2 over the (insn, priority) pairs, in list order: the first one of
\* maximum priority
argmax2(available_insns) ==
    CHOOSE i \in available_insns :
        \A j \in available_insns :
            \/ instructions[j].priority < instructions[i].priority
            \/ instructions[j].priority = instructions[i].priority /\ i <= j

\* the instructions not in done_insns whose dependencies are all available
AvailableInsns(available_names, done) ==
    { i \in Indices \ done : get_dependencies(instructions[i]) \subseteq available_names }

\* mutant of DiscardableVars: the test "insn not in done_insns" is inverted
DiscardableVars_DoneDeps(available_names, done) ==
    (available_names
        \ UNION { get_dependencies(instructions[i]) : i \in done })
    \ result

\* mutant of DiscardableVars: the result variables are not removed
DiscardableVars_NoResult(available_names, done) ==
    available_names
        \ UNION { get_dependencies(instructions[i]) : i \in Indices \ done }

\* mutant of DiscardableVars: the test "insn not in done_insns" is missing
DiscardableVars_AllDeps(available_names, done) ==
    (available_names
        \ UNION { get_dependencies(instructions[i]) : i \in Indices })
    \ result

\* mutant of DiscardableVars: the instruction about to run is left out
DiscardableVars_NotChosen(available_names, done) ==
    LET ready == { i \in Indices \ done :
                     get_dependencies(instructions[i]) \subseteq available_names }
        others == (Indices \ done) \ {argmax2(ready)}
    IN  (available_names
            \ UNION { get_dependencies(instructions[i]) : i \in others })
        \ result

\* the available names no instruction outside done_insns depends on, the
\* variables of the result expression removed
DiscardableVars(available_names, done) ==
    (available_names
        \ UNION { get_dependencies(instructions[i]) : i \in Indices \ done })
    \ result

\* get_next_step(available_names, done_insns): the exception it raises ("" if
\* none), the instruction it picks and the names that may be discarded
get_next_step(available_names, done) ==
    IF \E i \in Indices \ done : get_dependencies_raises(instructions[i])
    THEN [raises |-> "TypeError", insn |-> 0, discardable_vars |-> {}]
    ELSE IF AvailableInsns(available_names, done) = {}
    THEN [raises |-> "NoInstructionAvailable", insn |-> 0, discardable_vars |-> {}]
    ELSE [raises |-> "",
          insn |-> argmax2(AvailableInsns(available_names, done)),
          discardable_vars |-> DiscardableVars(available_names, done)]

\* ------------------------------------------------- execution methods, futures

NewFuture(id, i, stage, assignments) ==
    [id |-> id, insn |-> i, stage |-> stage, ready |-> FALSE,
     assignments |-> assignments]

\* insn.get_execution_method(exec_mapper)(insn) in ctx, as (assignments,
\* new_futures); async tells whether the method defers its assignments to a
\* Future; evaluating an expression whose operand is not in ctx raises KeyError
ExecInsn(i, ctx, stages, first_id) ==
    LET insn == instructions[i]
        deps == get_dependencies(insn)
    IN  IF ~(deps \subseteq DOMAIN ctx)
        THEN [raises |-> "KeyError", assignments |-> <<>>, new_futures |-> <<>>]
        ELSE LET assignments ==
                     [k \in 1..Len(insn.names) |->
                         <<insn.names[k], Value(insn.names[k], deps, ctx)>>]
             IN  IF stages = 0
                 THEN [raises |-> "", assignments |-> assignments,
                       new_futures |-> <<>>]
                 ELSE [raises |-> "", assignments |-> <<>>,
                       new_futures |-> <<NewFuture(first_id, i, stages, assignments)>>]

\* the behaviours the execution method of instruction i may show
StagesOf(i) ==
    IF instructions[i].flaky THEN {0, 1} ELSE {instructions[i].stages}

\* future(): (assignments, new_futures)
CompleteFuture(future, first_id) ==
    IF future.stage > 1
    THEN [assignments |-> <<>>,
          new_futures |-> <<NewFuture(first_id, future.insn, future.stage - 1,
                                      future.assignments)>>]
    ELSE [assignments |-> future.assignments, new_futures |-> <<>>]

\* for target, value in assignments: pre_assign_check(target, value);
\* context[target] = value.   The hook "check" raises on RejectedName.
\* mutant of WriteAssignments: the name is written before the hook is asked
RECURSIVE WriteAssignments_WriteFirst(_, _, _)
WriteAssignments_WriteFirst(ctx, assignments, hook) ==
    IF assignments = <<>>
    THEN [context |-> ctx, raises |-> "", wrote |-> {}, checked |-> <<>>]
    ELSE LET target == Head(assignments)[1]
             value == Head(assignments)[2]
         IN  IF hook = "check" /\ target = RejectedName
             THEN [context |-> Bind(ctx, target, value), raises |-> "pre_assign",
                   wrote |-> {target}, checked |-> <<target>>]
             ELSE LET rest == WriteAssignments_WriteFirst(Bind(ctx, target, value),
                                                          Tail(assignments), hook)
                  IN  [rest EXCEPT !.wrote = rest.wrote \cup {target},
                                   !.checked = IF hook = "check"
                                               THEN <<target>> \o rest.checked
                                               ELSE rest.checked]

RECURSIVE WriteAssignments(_, _, _)
WriteAssignments(ctx, assignments, hook) ==
    IF assignments = <<>>
    THEN [context |-> ctx, raises |-> "", wrote |-> {}, checked |-> <<>>]
    ELSE LET target == Head(assignments)[1]
             value == Head(assignments)[2]
         IN  IF hook = "check" /\ target = RejectedName
             THEN [context |-> ctx, raises |-> "pre_assign", wrote |-> {},
                   checked |-> <<target>>]
             ELSE LET rest == WriteAssignments(Bind(ctx, target, value),
                                               Tail(assignments), hook)
                  IN  [rest EXCEPT !.wrote = rest.wrote \cup {target},
                                   !.checked = IF hook = "check"
                                               THEN <<target>> \o rest.checked
                                               ELSE rest.checked]

\* with_object_array_or_scalar(exec_mapper, self.result): evaluating a result
\* variable that is not in the context raises KeyError
EvalResult(ctx) ==
    IF result \subseteq DOMAIN ctx
    THEN [raises |-> "", value |-> Restrict(ctx, result)]
    ELSE [raises |-> "KeyError", value |-> NoValue]

\* mutant of ScheduleEntry: the number of new Futures is not recorded
ScheduleEntry_NoCount(discardable_vars, is_future, insn, future_id, count) ==
    [discardable_vars |-> discardable_vars, is_future |-> is_future, insn |-> insn,
     future_id |-> future_id, new_future_count |-> 0]

\* mutant of ScheduleEntry: the discardable names are not recorded
ScheduleEntry_NoEviction(discardable_vars, is_future, insn, future_id, count) ==
    [discardable_vars |-> {}, is_future |-> is_future, insn |-> insn,
     future_id |-> future_id, new_future_count |-> count]

\* schedule.append((discardable_vars, insn, len(new_futures))), insn being an
\* instruction or EvaluateFuture(future.id)
ScheduleEntry(discardable_vars, is_future, insn, future_id, count) ==
    [discardable_vars |-> discardable_vars, is_future |-> is_future, insn |-> insn,
     future_id |-> future_id, new_future_count |-> count]

\* mutant of ShouldRecord: the schedule is recorded whatever the counter
ShouldRecord_Always(attempts) == TRUE

\* if self.static_schedule_attempts: self.last_schedule = schedule
ShouldRecord(attempts) == attempts # 0

\* mutant of DelayFree: the flag is overwritten by each Future's readiness
DelayFree_LastOnly(delay_free, is_ready) == is_ready

\* if not future.is_ready(): schedule_is_delay_free = False
DelayFree(delay_free, is_ready) == delay_free /\ is_ready

\* mutant of AttemptsAfterReplay: a delay-free replay restores the counter
AttemptsAfterReplay_Restore(delay_free, attempts) ==
    IF delay_free THEN InitialAttempts ELSE attempts - 1

\* if not schedule_is_delay_free: self.static_schedule_attempts -= 1
AttemptsAfterReplay(delay_free, attempts) ==
    IF delay_free THEN attempts ELSE attempts - 1

\* mutant of RemoveAt: the completed Future stays in the list
RemoveAt_Keep(seq, k) == seq

\* futures.pop(i) / id_to_future.pop(future_id): the list without its k-th entry
RemoveAt(seq, k) == SubSeq(seq, 1, k - 1) \o SubSeq(seq, k + 1, Len(seq))

\* ------------------------------------------------------------------ history

\* a Future the current call completed was not ready when it was completed
SomeFutureNotReady ==
    \E k \in 1..Len(trace) : trace[k].is_future /\ ~trace[k].was_ready

\* the current call is a replay that has run through its whole schedule
ReplayRanThrough ==
    /\ call.mode = "static"
    /\ pc \in {"returned", "raised"}
    /\ position > Len(call.pre_schedule.entries)

\* the instructions the current call has not run yet
Remaining ==
    Indices \ {trace[k].insn : k \in {k \in 1..Len(trace) : ~trace[k].is_future}}

\* the id of the first pending Future, in list order, that the dynamic
\* scheduler finds ready (a replay does not look)
FirstReady ==
    LET ready == { k \in 1..Len(futures) : pc = "dynamic" /\ futures[k].ready }
    IN  IF ready = {} THEN -1
        ELSE futures[CHOOSE k \in ready : \A m \in ready : k <= m].id

\* the names of a list of assignments
Names(assignments) == [k \in 1..Len(assignments) |-> assignments[k][1]]

Step(is_future, insn, future_id, evicted, written, before, new_future_count,
     was_ready, raises, produced) ==
    [is_future |-> is_future,       \* a Future was completed (no instruction ran)
     insn |-> insn,                 \* the instruction run, or the one the Future stems from
     future_id |-> future_id,       \* the id of the completed Future, -1 if none
     evicted |-> evicted,           \* the names deleted from the context
     wrote |-> written.wrote,       \* the names written after that
     checked |-> written.checked,   \* the names the hook was called with, in order
     keys_before |-> DOMAIN before, \* the context keys when the step began
     keys_mid |-> DOMAIN before \ evicted,    \* ... when the outputs were written
     remaining |-> Remaining,       \* the instructions not yet run when it began
     insn_ready |-> \E i \in Remaining :
                        /\ ~get_dependencies_raises(instructions[i])
                        /\ get_dependencies(instructions[i]) \subseteq DOMAIN before,
     new_future_count |-> new_future_count,
     was_ready |-> was_ready,       \* the completed Future was ready
     forced |-> force_future,       \* force_future when the step began
     first_ready |-> FirstReady,    \* the id of the first ready Future then, -1 if none
     produced |-> produced,         \* the names of the assignments it produced, in order
     raises |-> raises]

NotRecorded == [keys |-> {}, trace |-> <<>>, pc |-> "idle", retval |-> NoValue]

\* what a run did, step by step: the instruction run or the Future completed,
\* the names evicted and the names written
Did(steps) ==
    [k \in 1..Len(steps) |->
        [is_future |-> steps[k].is_future, insn |-> steps[k].insn,
         future_id |-> steps[k].future_id, evicted |-> steps[k].evicted,
         wrote |-> steps[k].wrote]]

\* Code.__str__ has not been called
NotStringified ==
    [pc |-> "none", added_insns |-> {}, ordered_insns |-> <<>>, error |-> ""]

\* aggregate_assignments has not been called
NotAggregating ==
    [pc |-> "none", instructions |-> <<>>, result |-> <<>>, max_vectors_in_batch_expr |-> 0,
     origins_map |-> [n \in {} |-> n], unprocessed_assigns |-> <<>>,
     processed_assigns |-> <<>>, other_insns |-> <<>>, output |-> <<>>,
     merges |-> <<>>, rejected |-> {}, skipped |-> {}, bypassed |-> {}]

\* the discretization-scoped name generator and the cache from subexpression to
\* name of a new discretization; both start empty
NewDiscretization ==
    [discr_scoped_name_gen |-> {}, discr_scoped_subexpr_to_name |-> [e \in {} |-> e]]

\* ------------------------------------------------------------------- Init

Init ==
    /\ instructions \in Programs
    /\ result \in Results
    /\ last_schedule = None
    /\ static_schedule_attempts = InitialAttempts
    /\ pc = "idle"
    /\ error = ""
    /\ retval = NoValue
    /\ context = [n \in {} |-> n]
    /\ pre_assign_check = "none"
    /\ futures = <<>>
    /\ next_future_id = 0
    /\ done_insns = {}
    /\ force_future = FALSE
    /\ schedule = <<>>
    /\ position = 1
    /\ schedule_is_delay_free = TRUE
    /\ trace = <<>>
    /\ call = [mode |-> "idle", keys |-> {}, pre_schedule |-> None,
               pre_attempts |-> InitialAttempts, recorded_keys |-> {},
               recorded_run |-> NotRecorded,
               after_failed_replay |-> FALSE]
    /\ recorded = NotRecorded
    /\ failed_replays = 0
    /\ printed = {}
    /\ discr = NewDiscretization
    /\ compilations = <<>>
    /\ aggregation = NotAggregating
    /\ str_call = NotStringified

code_fields == <<instructions, result>>
compiler_vars == <<discr, compilations, aggregation>>
str_vars == <<str_call>>
locals == <<futures, next_future_id, done_insns, force_future, schedule, position,
            schedule_is_delay_free>>

\* ------------------------------------------------------------ Code.execute

\* a caller calls execute(exec_mapper, pre_assign_check) with a fresh context
Execute(keys, hook) ==
    /\ pc \in {"idle", "returned", "raised"}
    /\ context' = [n \in keys |-> InputValue(n)]
    /\ pre_assign_check' = hook
    /\ pc' = IF last_schedule = None THEN "dynamic" ELSE "static"
    /\ error' = ""
    /\ retval' = NoValue
    /\ futures' = <<>>
    /\ next_future_id' = 0
    /\ done_insns' = {}
    /\ force_future' = FALSE
    /\ schedule' = <<>>
    /\ position' = 1
    /\ schedule_is_delay_free' = TRUE
    /\ trace' = <<>>
    /\ call' = [mode |-> pc', keys |-> keys, pre_schedule |-> last_schedule,
                pre_attempts |-> static_schedule_attempts,
                recorded_keys |-> recorded.keys,
                recorded_run |-> recorded,
                after_failed_replay |-> ReplayRanThrough /\ SomeFutureNotReady]
    /\ printed' = {}
    /\ UNCHANGED <<str_vars, compiler_vars, code_fields, last_schedule, static_schedule_attempts, recorded,
                   failed_replays>>

\* a pending Future becomes ready (the asynchronous operation has finished)
FutureBecomesReady(k) ==
    /\ pc \in {"dynamic", "static"}
    /\ k \in 1..Len(futures)
    /\ ~futures[k].ready
    /\ futures' = [futures EXCEPT ![k].ready = TRUE]
    /\ UNCHANGED <<str_vars, compiler_vars, code_fields, last_schedule, static_schedule_attempts, pc, error,
                   retval, context, pre_assign_check, next_future_id, done_insns,
                   force_future, schedule, position, schedule_is_delay_free, trace,
                   call, recorded, failed_replays, printed>>

\* the call ends with an exception
Raise(exc) ==
    /\ pc' = "raised"
    /\ error' = exc
    /\ retval' = NoValue

\* ------------------------------------------------------ execute_dynamic

\* mutant of CompletableFutures: is_ready() is not asked
CompletableFutures_Always == 1..Len(futures)

\* mutant of CompletableFutures: Futures are completed only when forced
CompletableFutures_ForcedOnly == { k \in 1..Len(futures) : force_future }

\* the futures the loop "check futures for completion" would process
CompletableFutures ==
    { k \in 1..Len(futures) : force_future \/ futures[k].ready }

\* one iteration of the loop that completes a Future: the first one in list
\* order that is ready, or the first one of the list when force_future is set
DynEvaluateFuture ==
    /\ pc = "dynamic"
    /\ CompletableFutures # {}
    /\ LET k == CHOOSE k \in CompletableFutures : \A m \in CompletableFutures : k <= m
           future == futures[k]
           done == CompleteFuture(future, next_future_id)
           written == WriteAssignments(context, done.assignments, pre_assign_check)
           step == Step(TRUE, future.insn, future.id, {}, written, context,
                        Len(done.new_futures), future.ready, written.raises,
                        Names(done.assignments))
       IN  /\ context' = written.context
           /\ trace' = Append(trace, step)
           /\ force_future' = FALSE
           /\ IF written.raises # ""
              THEN /\ Raise(written.raises)
                   /\ futures' = RemoveAt(futures, k)
                   /\ UNCHANGED <<schedule, next_future_id>>
              ELSE /\ futures' = RemoveAt(futures, k) \o done.new_futures
                   /\ schedule' = Append(schedule,
                          ScheduleEntry({}, TRUE, 0, future.id, Len(done.new_futures)))
                   /\ next_future_id' = next_future_id + Len(done.new_futures)
                   /\ UNCHANGED <<pc, error, retval>>
    /\ UNCHANGED <<str_vars, compiler_vars, code_fields, last_schedule, static_schedule_attempts,
                   pre_assign_check, done_insns, position, schedule_is_delay_free,
                   call, recorded, failed_replays, printed>>

\* one iteration of the loop that runs an instruction: no Future was processed
\* and get_next_step returned one
DynRunInsn ==
    /\ pc = "dynamic"
    /\ CompletableFutures = {}
    /\ LET next == get_next_step(DOMAIN context, done_insns)
       IN  /\ next.raises = ""
           /\ \E stages \in StagesOf(next.insn) :
               LET kept == Restrict(context, DOMAIN context \ next.discardable_vars)
                   exec == ExecInsn(next.insn, kept, stages, next_future_id)
                   written == WriteAssignments(kept, exec.assignments,
                                               pre_assign_check)
                   raises == IF exec.raises # "" THEN exec.raises ELSE written.raises
                   step == Step(FALSE, next.insn, -1, next.discardable_vars, written,
                                context, Len(exec.new_futures), TRUE, raises,
                                Names(exec.assignments))
               IN  /\ context' = written.context
                   /\ done_insns' = done_insns \cup {next.insn}
                   /\ trace' = Append(trace, step)
                   /\ IF raises # ""
                      THEN /\ Raise(raises)
                           /\ UNCHANGED <<futures, schedule, next_future_id>>
                      ELSE /\ futures' = futures \o exec.new_futures
                           /\ schedule' = Append(schedule,
                                  ScheduleEntry(next.discardable_vars, FALSE,
                                                next.insn, -1, Len(exec.new_futures)))
                           /\ next_future_id' = next_future_id + Len(exec.new_futures)
                           /\ UNCHANGED <<pc, error, retval>>
    /\ UNCHANGED <<str_vars, compiler_vars, code_fields, last_schedule, static_schedule_attempts,
                   pre_assign_check, force_future, position, schedule_is_delay_free,
                   call, recorded, failed_replays, printed>>

\* get_next_step raises something other than NoInstructionAvailable: the
\* exception leaves execute_dynamic
DynGetNextStepFails ==
    /\ pc = "dynamic"
    /\ CompletableFutures = {}
    /\ get_next_step(DOMAIN context, done_insns).raises = "TypeError"
    /\ Raise("TypeError")
    /\ UNCHANGED <<str_vars, compiler_vars, code_fields, last_schedule, static_schedule_attempts, context,
                   pre_assign_check, locals, trace, call, recorded, failed_replays,
                   printed>>

\* no instruction is ready and Futures are pending: the next iteration
\* completes the first Future, ready or not
DynForceFuture ==
    /\ pc = "dynamic"
    /\ CompletableFutures = {}
    /\ get_next_step(DOMAIN context, done_insns).raises = "NoInstructionAvailable"
    /\ futures # <<>>
    /\ force_future' = TRUE
    /\ UNCHANGED <<str_vars, compiler_vars, code_fields, last_schedule, static_schedule_attempts, pc, error,
                   retval, context, pre_assign_check, futures, next_future_id,
                   done_insns, schedule, position, schedule_is_delay_free, trace,
                   call, recorded, failed_replays, printed>>

\* len(done_insns) < len(self.instructions): some instruction was never run
Unreachable_OffByOne(done) == Cardinality(done) + 1 < Len(instructions)
Unreachable(done) == Cardinality(done) < Len(instructions)

\* set(self.instructions) - done_insns, printed under "Unreachable instructions:"
UnreachableInsns(done) == Indices \ done

\* no instruction is ready and no Future is pending: the loop ends; the
\* unreachable-instruction check, the recording of the schedule and the
\* evaluation of the result follow
\* mutant of RecordsSchedule: the schedule is stored before the test for
\* unreachable instructions
RecordsSchedule_BeforeTest(unreachable, attempts) == ShouldRecord(attempts)

\* the schedule is stored only past the raise for unreachable instructions
RecordsSchedule(unreachable, attempts) == ~unreachable /\ ShouldRecord(attempts)

DynFinish ==
    /\ pc = "dynamic"
    /\ CompletableFutures = {}
    /\ get_next_step(DOMAIN context, done_insns).raises = "NoInstructionAvailable"
    /\ futures = <<>>
    /\ IF Unreachable(done_insns)
       THEN /\ Raise("RuntimeError")
            /\ printed' = UnreachableInsns(done_insns)
       ELSE LET res == EvalResult(context)
            IN  /\ IF res.raises # ""
                   THEN Raise(res.raises)
                   ELSE /\ pc' = "returned"
                        /\ error' = ""
                        /\ retval' = res.value
                /\ printed' = {}
    /\ IF RecordsSchedule(Unreachable(done_insns), static_schedule_attempts)
       THEN /\ last_schedule' = Schedule(schedule)
            /\ recorded' = [keys |-> call.keys, trace |-> Did(trace),
                            pc |-> pc', retval |-> retval']
       ELSE UNCHANGED <<last_schedule, recorded>>
    /\ UNCHANGED <<str_vars, compiler_vars, code_fields, static_schedule_attempts, context, pre_assign_check,
                   locals, trace, call, failed_replays>>

\* ------------------------------------------------- execute: static replay

\* id_to_future.pop(future_id): the position of that Future, 0 if there is none
FutureWithId(future_id) ==
    IF \E k \in 1..Len(futures) : futures[k].id = future_id
    THEN CHOOSE k \in 1..Len(futures) : futures[k].id = future_id
    ELSE 0

\* mutant of ReplayEntry: a completed Future's assignments are dropped
ReplayEntry_DropsAssignments(entry, kept, stages) ==
    IF entry.is_future
    THEN LET k == FutureWithId(entry.future_id)
         IN  IF k = 0
             THEN [raises |-> "KeyError", insn |-> 0, assignments |-> <<>>,
                   new_futures |-> <<>>, others |-> futures, was_ready |-> TRUE]
             ELSE [raises |-> "", insn |-> futures[k].insn, assignments |-> <<>>,
                   new_futures |-> CompleteFuture(futures[k], next_future_id).new_futures,
                   others |-> RemoveAt(futures, k), was_ready |-> futures[k].ready]
    ELSE LET exec == ExecInsn(entry.insn, kept, stages, next_future_id)
         IN  [raises |-> exec.raises, insn |-> entry.insn,
              assignments |-> exec.assignments, new_futures |-> exec.new_futures,
              others |-> futures, was_ready |-> TRUE]

\* the body of the replay loop after the deletions, for one schedule entry:
\* what completing the Future or running the instruction yields
ReplayEntry(entry, kept, stages) ==
    IF entry.is_future
    THEN LET k == FutureWithId(entry.future_id)
         IN  IF k = 0
             THEN [raises |-> "KeyError", insn |-> 0, assignments |-> <<>>,
                   new_futures |-> <<>>, others |-> futures, was_ready |-> TRUE]
             ELSE LET done == CompleteFuture(futures[k], next_future_id)
                  IN  [raises |-> "", insn |-> futures[k].insn,
                       assignments |-> done.assignments,
                       new_futures |-> done.new_futures,
                       others |-> RemoveAt(futures, k),
                       was_ready |-> futures[k].ready]
    ELSE LET exec == ExecInsn(entry.insn, kept, stages, next_future_id)
         IN  [raises |-> exec.raises, insn |-> entry.insn,
              assignments |-> exec.assignments, new_futures |-> exec.new_futures,
              others |-> futures, was_ready |-> TRUE]

\* len(new_futures) != new_future_count
FutureCountMismatch_TooManyOnly(got, expected) == got > expected
FutureCountMismatch(got, expected) == got # expected

\* one iteration of the replay loop: one entry of last_schedule
\* mutant of MissingNames: a name that is not in the context is passed over
MissingNames_PassedOver(discardable_vars, ctx) == {}

\* the names `del context[name]` raises KeyError for
MissingNames(discardable_vars, ctx) == discardable_vars \ DOMAIN ctx

ReplayStep ==
    /\ pc = "static"
    /\ position <= Len(last_schedule.entries)
    /\ LET entry == last_schedule.entries[position]
           present == entry.discardable_vars \cap DOMAIN context
       IN  IF MissingNames(entry.discardable_vars, context) # {}
           THEN \* del context[name] raises KeyError, after some of the deletions
                \E deleted \in SUBSET present :
                    /\ context' = Restrict(context, DOMAIN context \ deleted)
                    /\ trace' = Append(trace,
                           Step(entry.is_future, entry.insn, entry.future_id, deleted,
                                [wrote |-> {}, checked |-> <<>>], context, 0, TRUE,
                                "KeyError", <<>>))
                    /\ Raise("KeyError")
                    /\ UNCHANGED locals
           ELSE \E stages \in IF entry.is_future THEN {0} ELSE StagesOf(entry.insn) :
                LET kept == Restrict(context, DOMAIN context \ entry.discardable_vars)
                    got == ReplayEntry(entry, kept, stages)
                    written == WriteAssignments(kept, got.assignments,
                                                pre_assign_check)
                    raises ==
                        IF got.raises # "" THEN got.raises
                        ELSE IF written.raises # "" THEN written.raises
                        ELSE IF FutureCountMismatch(Len(got.new_futures),
                                                    entry.new_future_count)
                             THEN "RuntimeError"
                        ELSE ""
                    step == Step(entry.is_future, got.insn, entry.future_id,
                                 entry.discardable_vars, written, context,
                                 Len(got.new_futures), got.was_ready, raises,
                                 Names(got.assignments))
                IN  /\ context' = written.context
                    /\ trace' = Append(trace, step)
                    /\ schedule_is_delay_free' =
                           DelayFree(schedule_is_delay_free, got.was_ready)
                    /\ IF raises # ""
                       THEN /\ Raise(raises)
                            /\ futures' = got.others
                            /\ UNCHANGED <<next_future_id, position>>
                       ELSE /\ futures' = got.others \o got.new_futures
                            /\ next_future_id' = next_future_id + Len(got.new_futures)
                            /\ position' = position + 1
                            /\ UNCHANGED <<pc, error, retval>>
                    /\ UNCHANGED <<done_insns, force_future, schedule>>
    /\ UNCHANGED <<str_vars, compiler_vars, code_fields, last_schedule, static_schedule_attempts,
                   pre_assign_check, call, recorded, failed_replays, printed>>

\* the replay loop has run through last_schedule: the schedule is dropped and
\* the attempt counter decremented if a Future was not ready; the result is
\* evaluated
ReplayFinish ==
    /\ pc = "static"
    /\ position > Len(last_schedule.entries)
    /\ static_schedule_attempts' =
           AttemptsAfterReplay(schedule_is_delay_free, static_schedule_attempts)
    /\ IF ~schedule_is_delay_free
       THEN /\ last_schedule' = None
            /\ recorded' = NotRecorded
       ELSE UNCHANGED <<last_schedule, recorded>>
    /\ failed_replays' = IF SomeFutureNotReady THEN failed_replays + 1
                         ELSE failed_replays
    /\ LET res == EvalResult(context)
       IN  IF res.raises # ""
           THEN Raise(res.raises)
           ELSE /\ pc' = "returned"
                /\ error' = ""
                /\ retval' = res.value
    /\ UNCHANGED <<str_vars, compiler_vars, code_fields, context, pre_assign_check, locals, trace, call,
                   printed>>

\* ------------------------------------------------------------ specification

Next ==
    \/ \E keys \in ContextKeySets, hook \in {"none", "check"} : Execute(keys, hook)
    \/ \E k \in 1..Len(futures) : FutureBecomesReady(k)
    \/ DynEvaluateFuture
    \/ DynRunInsn
    \/ DynGetNextStepFails
    \/ DynForceFuture
    \/ DynFinish
    \/ ReplayStep
    \/ ReplayFinish

Spec == Init /\ [][Next]_vars

\* ----------------------------------------------------- vocabulary of claims

Steps == 1..Len(trace)

\* the steps of the current call that ran an instruction
InsnSteps == { k \in Steps : ~trace[k].is_future /\ trace[k].raises # "KeyError" }

\* how often the current call has run instruction i
ExecCount(i) == Cardinality({ k \in InsnSteps : trace[k].insn = i })

CallEnded == call.mode # "idle" /\ pc \in {"returned", "raised"}

\* the names the instructions of `insns` depend on
Needed(insns) == UNION { get_dependencies(instructions[i]) : i \in insns }

AssignedNames == UNION { get_assignees(instructions[i]) : i \in Indices }

\* instruction i reads a name instruction j assigns
DependsOn(i, j) ==
    get_dependencies(instructions[i]) \cap get_assignees(instructions[j]) # {}

RECURSIVE Origins(_, _)
Origins(insns, n) ==
    IF n = 0 THEN insns
    ELSE Origins(insns \cup { j \in Indices : \E i \in insns : DependsOn(i, j) }, n - 1)

\* the dependency graph is satisfiable for a context with these keys
Satisfiable(keys) ==
    /\ \A i \in Indices : get_dependencies(instructions[i]) \subseteq keys \cup AssignedNames
    /\ \A i \in Indices :
           i \notin Origins({ j \in Indices : DependsOn(i, j) }, Len(instructions))

\* no instruction of the Code yields a Future
NoFutures == \A i \in Indices : instructions[i].stages = 0 /\ ~instructions[i].flaky

\* the instructions of `insns` whose dependencies are all in `keys`
ReadyAmong(insns, keys) ==
    { i \in insns : get_dependencies(instructions[i]) \subseteq keys }

\* ------------------------------------------------------------------ claims

\* C1: Totality.  When a call of execute (without a rejecting hook) on a Code
\* with a satisfiable dependency graph has ended, every instruction of the Code
\* has been executed exactly once, on the dynamic run and on every replay.
C1_Totality ==
    (CallEnded /\ pre_assign_check = "none" /\ Satisfiable(call.keys))
        => \A i \in Indices : ExecCount(i) = 1

\* C2: every instruction the dynamic scheduler runs had all the names of its
\* dependency set in the context when it was picked, and the eviction of that
\* step removed none of them.
C2_DepsBoundWhenRun ==
    call.mode = "dynamic" =>
        \A k \in Steps :
            ~trace[k].is_future =>
                /\ get_dependencies(instructions[trace[k].insn]) \subseteq trace[k].keys_before
                /\ get_dependencies(instructions[trace[k].insn]) \cap trace[k].evicted = {}
                /\ get_dependencies(instructions[trace[k].insn]) \subseteq trace[k].keys_mid

C2_Witness ==
    /\ call.mode = "dynamic"
    /\ \E k \in InsnSteps :
           /\ trace[k].evicted # {}
           /\ get_dependencies(instructions[trace[k].insn]) # {}

\* C3: the instruction the dynamic scheduler picks has the maximum priority
\* among the not yet executed instructions whose dependencies are all in the
\* context, and among those of maximum priority it is the first of the
\* instruction list (so the pick is a function of the context keys and the set
\* of executed instructions).
C3_MaxPriorityPick ==
    call.mode = "dynamic" =>
        \A k \in Steps :
            ~trace[k].is_future =>
                LET ready == ReadyAmong(trace[k].remaining, trace[k].keys_before)
                    i == trace[k].insn
                IN  /\ i \in ready
                    /\ \A j \in ready :
                           \/ instructions[j].priority < instructions[i].priority
                           \/ instructions[j].priority = instructions[i].priority
                              /\ i <= j

C3_Witness ==
    /\ call.mode = "dynamic"
    /\ \E k \in InsnSteps :
           LET ready == ReadyAmong(trace[k].remaining, trace[k].keys_before)
               i == trace[k].insn
           IN  /\ \E j \in ready : j # i /\ instructions[j].priority = instructions[i].priority
               /\ \E j \in ready : j < i /\ instructions[j].priority < instructions[i].priority

\* C4: eviction safety.  No step of a dynamic run, or of a replay given a
\* context with the key set of the recording run, deletes a name that is in the
\* dependency set of an instruction not yet executed (the one about to run
\* included) or that is a variable of the result expression.
C4_EvictionSafety ==
    (call.mode = "dynamic" \/ (call.mode = "static" /\ call.keys = call.recorded_keys))
        => \A k \in Steps :
               trace[k].evicted \cap (Needed(trace[k].remaining) \cup result) = {}

C4_Witness ==
    /\ call.mode = "static"
    /\ call.keys = call.recorded_keys
    /\ \E k \in InsnSteps :
           /\ trace[k].evicted # {}
           /\ Needed(trace[k].remaining) \cap trace[k].keys_before # {}
           /\ result \cap trace[k].keys_before # {}

\* the last step of the current call that ran an instruction
LastInsnStep == CHOOSE k \in InsnSteps : \A m \in InsnSteps : m <= k

\* the names written by the steps of the current call from step k on
WrittenSince(k) == UNION { trace[m].wrote : m \in k..Len(trace) }

\* C5 as stated: when execute has returned, every name bound in the context is
\* a variable of the result expression.
C5_OnlyResultRemains ==
    pc = "returned" => DOMAIN context \subseteq result

\* C5 amended: when a call that ran an instruction has returned (a dynamic
\* run, or a replay given a context with the key set of the recording run),
\* every name bound in the context is a variable of the result expression, a
\* dependency of the instruction run last, or a name written by that
\* instruction or by a Future completed after it.
C5_Amended ==
    (/\ pc = "returned"
     /\ call.mode = "dynamic" \/ call.keys = call.recorded_keys
     /\ InsnSteps # {}) =>
        DOMAIN context \subseteq
            result
            \cup get_dependencies(instructions[trace[LastInsnStep].insn])
            \cup WrittenSince(LastInsnStep)

C5_Witness ==
    /\ pc = "returned"
    /\ call.mode = "dynamic"
    /\ Len(instructions) = 3
    /\ ~(DOMAIN context \subseteq result)
    /\ \E k \in InsnSteps : trace[k].evicted # {}
    /\ \E n \in call.keys \cup AssignedNames : n \notin DOMAIN context

\* once a dynamic run has run an instruction, its context holds no binding
\* that no remaining instruction and no result variable refers to
NoUnreachableBinding ==
    (pc = "dynamic" /\ InsnSteps # {}) => DOMAIN context \subseteq Needed(Indices \ done_insns) \cup result

\* every instruction step of a dynamic run deleted exactly the context keys
\* that are in no dependency set of a not yet executed instruction (the chosen
\* one included) and are no result variable
ExactEviction ==
    call.mode = "dynamic" =>
        \A k \in InsnSteps :
            trace[k].evicted =
                (trace[k].keys_before \ Needed(trace[k].remaining)) \ result

\* the outputs of the step just taken were written after its deletions
WrittenAfterEviction ==
    (call.mode = "dynamic" /\ pc = "dynamic" /\ trace # <<>>) =>
        trace[Len(trace)].wrote \subseteq DOMAIN context

\* C6 as stated: exact eviction before the outputs are written, and therefore
\* the context never holds an unreachable binding.
C6_NeverUnreachable ==
    ExactEviction /\ WrittenAfterEviction /\ NoUnreachableBinding

\* C6 amended: exact eviction before the outputs are written, and therefore
\* the context the chosen instruction runs in (after the deletions, before its
\* outputs are written) holds no binding that no remaining instruction and no
\* result variable refers to.
C6_Amended ==
    /\ ExactEviction
    /\ WrittenAfterEviction
    /\ call.mode = "dynamic" =>
           \A k \in InsnSteps :
               trace[k].keys_mid \subseteq Needed(trace[k].remaining) \cup result

C6_Witness ==
    /\ call.mode = "dynamic"
    /\ pc = "dynamic"
    /\ \E k \in InsnSteps :
           /\ k = Len(trace)
           /\ trace[k].evicted \cap trace[k].wrote # {}
           /\ trace[k].keys_mid # {}

\* C7: replay equivalence.  On a Code none of whose instructions yields a
\* Future, a replay given a context with the key set of the recording run (and
\* no rejecting hook) runs the same instructions in the same order and evicts
\* and writes the same names at the same steps as the recording dynamic run,
\* ends as that run ended, with the same result, and leaves the recorded
\* schedule and the attempt counter as they were.
C7_ReplayEquivalence ==
    (call.mode = "static" /\ NoFutures /\ call.keys = call.recorded_keys
            /\ pre_assign_check = "none") =>
        /\ Len(trace) <= Len(recorded.trace)
        /\ \A k \in Steps : Did(trace)[k] = recorded.trace[k]
        /\ last_schedule = call.pre_schedule
        /\ static_schedule_attempts = call.pre_attempts
        /\ pc \in {"returned", "raised"} =>
               /\ Len(trace) = Len(recorded.trace)
               /\ pc = recorded.pc
               /\ retval = recorded.retval

C7_Witness ==
    /\ call.mode = "static"
    /\ NoFutures
    /\ call.keys = call.recorded_keys
    /\ pre_assign_check = "none"
    /\ pc = "returned"
    /\ Len(trace) = 3
    /\ \E k \in Steps : trace[k].evicted # {}

\* the number of Futures the current call found not ready when it completed them
NotReadyCount ==
    Cardinality({ k \in Steps : trace[k].is_future /\ ~trace[k].was_ready })

\* C8: a replay that ran through its schedule and found at least one Future
\* not ready has set last_schedule to None and decremented the attempt counter
\* by exactly 1, however many Futures were not ready; the execute call that
\* follows it runs the dynamic scheduler.
C8_TimingDowngrade ==
    /\ (ReplayRanThrough /\ NotReadyCount >= 1) =>
           /\ last_schedule = None
           /\ static_schedule_attempts = call.pre_attempts - 1
    /\ call.after_failed_replay => call.mode = "dynamic"

C8_Witness ==
    /\ ReplayRanThrough
    /\ NotReadyCount >= 2
    /\ \E k \in Steps : trace[k].is_future /\ trace[k].was_ready
    /\ last_schedule = None
    /\ static_schedule_attempts = call.pre_attempts - 1

\* C9: once InitialAttempts replays have failed timing validation the attempt
\* counter is 0, no schedule is recorded and no call replays: every later call
\* runs the dynamic scheduler.
C9_PermanentDisable ==
    failed_replays >= InitialAttempts =>
        /\ static_schedule_attempts = 0
        /\ last_schedule = None
        /\ pc # "static"
        /\ (call.pre_attempts = 0 => call.mode = "dynamic")

C9_Witness ==
    /\ failed_replays = InitialAttempts
    /\ call.pre_attempts = 0
    /\ call.mode = "dynamic"
    /\ pc = "returned"
    /\ last_schedule = None

\* C10: a replay that ran through its schedule and found every Future ready
\* leaves last_schedule and the attempt counter as they were; the counter is
\* never restored: it is always InitialAttempts minus the number of failed
\* replays.
C10_SuccessfulReplayFrame ==
    /\ (ReplayRanThrough /\ NotReadyCount = 0) =>
           /\ last_schedule = call.pre_schedule
           /\ static_schedule_attempts = call.pre_attempts
    /\ static_schedule_attempts = InitialAttempts - failed_replays

C10_Witness ==
    /\ ReplayRanThrough
    /\ NotReadyCount = 0
    /\ \E k \in Steps : trace[k].is_future
    /\ failed_replays >= 1
    /\ last_schedule = call.pre_schedule
    /\ ~last_schedule.is_none

\* C11: the attempt counter is always between 0 and InitialAttempts, and
\* whenever a schedule is present the counter is greater than 0.
C11_CounterRange ==
    /\ static_schedule_attempts \in 0..InitialAttempts
    /\ ~last_schedule.is_none => static_schedule_attempts > 0

C11_Witness ==
    /\ static_schedule_attempts = 0
    /\ ReplayRanThrough
    /\ call.pre_attempts = 1
    /\ ~call.pre_schedule.is_none
    /\ last_schedule.is_none

\* the steps of the current call that completed a Future
FutureSteps == { k \in Steps : trace[k].is_future /\ trace[k].raises # "KeyError" }

\* the steps that completed a Future that was not ready: the blocking waits
BlockingSteps == { k \in FutureSteps : ~trace[k].was_ready }

\* C12 as stated: in a dynamic run and in a replay alike, a Future that is not
\* ready is completed only when no instruction not yet executed has all its
\* dependencies in the context.
C12_OnlyBlockingPoint ==
    \A k \in BlockingSteps : ~trace[k].insn_ready

\* C12 amended: that holds of the dynamic run; a replay completes a Future at
\* its marker whether or not it is ready and whether or not an instruction is.
C12_Amended ==
    call.mode = "dynamic" => \A k \in BlockingSteps : ~trace[k].insn_ready

C12_Witness ==
    /\ call.mode = "dynamic"
    /\ \E k \in BlockingSteps :
           /\ trace[k].forced
           /\ trace[k].remaining # {}
           /\ k > 1

\* a step of the dynamic scheduler that began with a ready Future pending
StepsWithReadyFuture == { k \in Steps : trace[k].first_ready # -1 }

\* step k completed the first ready Future, ran no instruction, evicted
\* nothing, and (unless the hook ended the run) was recorded as a marker for
\* that Future with an empty set of names to delete
CompletedFirstReady(k) ==
    /\ trace[k].is_future
    /\ trace[k].future_id = trace[k].first_ready
    /\ trace[k].evicted = {}
    /\ trace[k].keys_mid = trace[k].keys_before
    /\ trace[k].raises = "" =>
           /\ k <= Len(schedule)
           /\ schedule[k].is_future
           /\ schedule[k].future_id = trace[k].first_ready
           /\ schedule[k].discardable_vars = {}

\* C13 as stated: a step of the dynamic scheduler that begins with some ready
\* pending Future completes the first ready Future in queue order.
C13_ReadyFutureFirst ==
    call.mode = "dynamic" => \A k \in StepsWithReadyFuture : CompletedFirstReady(k)

\* C13 amended: unless the step before it forced completion, in which case
\* the first Future of the queue is completed, ready or not.
C13_Amended ==
    call.mode = "dynamic" =>
        \A k \in StepsWithReadyFuture :
            IF trace[k].forced
            THEN trace[k].is_future /\ trace[k].evicted = {}
            ELSE CompletedFirstReady(k)

C13_Witness ==
    /\ call.mode = "dynamic"
    /\ \E k \in StepsWithReadyFuture :
           /\ ~trace[k].forced
           /\ CompletedFirstReady(k)
           /\ trace[k].raises = ""
           /\ \E i \in ReadyAmong(trace[k].remaining, trace[k].keys_before) :
                  instructions[i].priority = 1

\* the instructions the current call never ran
NeverExecuted == { i \in Indices : ExecCount(i) = 0 }

\* the dynamic run ended because no instruction was ready and no Future was
\* pending (not because a step or the computation of a dependency set raised)
DynamicStopped ==
    /\ call.mode = "dynamic"
    /\ CallEnded
    /\ futures = <<>>
    /\ \A k \in Steps : trace[k].raises = ""
    /\ \A i \in NeverExecuted :
           /\ ~get_dependencies_raises(instructions[i])
           /\ ~(get_dependencies(instructions[i]) \subseteq DOMAIN context)

\* C14: a dynamic run raises the unreachable-instruction error exactly when
\* it stops with an instruction never executed; the instructions it reports
\* are exactly those never executed, and the run records no schedule.
C14_UnreachableError ==
    (call.mode = "dynamic" /\ CallEnded) =>
        /\ error = "RuntimeError" <=> (DynamicStopped /\ NeverExecuted # {})
        /\ error = "RuntimeError" =>
               /\ pc = "raised"
               /\ printed = NeverExecuted
               /\ last_schedule = None
               /\ static_schedule_attempts = call.pre_attempts
        /\ error # "RuntimeError" => printed = {}

C14_Witness ==
    /\ call.mode = "dynamic"
    /\ pc = "raised"
    /\ error = "RuntimeError"
    /\ Cardinality(printed) = 1
    /\ \E i \in Indices : ExecCount(i) = 1
    /\ \E k \in FutureSteps : TRUE

\* step k of a replay ran its instruction or completed its Future and got a
\* number of new Futures other than the one its schedule entry records
CountDiffers(k) ==
    /\ trace[k].raises # "KeyError"
    /\ trace[k].new_future_count # call.pre_schedule.entries[k].new_future_count

\* C15: when a step of a replay yields a number of new Futures other than the
\* recorded one, execute raises (the mismatch error, unless the hook rejected
\* an assignment of that step first) and no later schedule entry is run.
C15_CountMismatch ==
    call.mode = "static" =>
        \A k \in Steps :
            CountDiffers(k) =>
                /\ k = Len(trace)
                /\ position = k
                /\ pc = "raised"
                /\ trace[k].raises \in {"RuntimeError", "pre_assign"}
                /\ error = trace[k].raises
                /\ trace[k].checked = <<>> => error = "RuntimeError"
                /\ static_schedule_attempts = call.pre_attempts

C15_Witness ==
    /\ call.mode = "static"
    /\ pc = "raised"
    /\ error = "RuntimeError"
    /\ CountDiffers(Len(trace))
    /\ Len(trace) < Len(call.pre_schedule.entries)
    /\ Len(trace) > 1

\* the names a step asked the hook about are those of the assignments it
\* produced, each once and in order, up to the one the hook rejected
CheckedPrefix(k) ==
    /\ Len(trace[k].checked) <= Len(trace[k].produced)
    /\ \A m \in 1..Len(trace[k].checked) : trace[k].checked[m] = trace[k].produced[m]

\* C16: with a hook, every step calls it exactly once for each assignment it
\* produced (instruction or completed Future, dynamic run or replay) and writes
\* the name afterwards; when the hook raises, the name is not written, no later
\* step runs and the error ends the call.
C16_PreAssignHook ==
    \A k \in Steps :
        /\ pre_assign_check = "none" => trace[k].checked = <<>>
        /\ pre_assign_check = "check" =>
               /\ CheckedPrefix(k)
               /\ trace[k].raises # "pre_assign" =>
                      /\ trace[k].checked = trace[k].produced
                      /\ trace[k].wrote = { trace[k].produced[m] : m \in 1..Len(trace[k].produced) }
                      /\ RejectedName \notin trace[k].wrote
               /\ trace[k].raises = "pre_assign" =>
                      /\ trace[k].checked[Len(trace[k].checked)] = RejectedName
                      /\ trace[k].wrote =
                             { trace[k].checked[m] : m \in 1..(Len(trace[k].checked) - 1) }
                      /\ RejectedName \notin trace[k].wrote
                      /\ RejectedName \notin DOMAIN context
                      /\ k = Len(trace)
                      /\ pc = "raised"
                      /\ error = "pre_assign"

C16_Witness ==
    /\ pre_assign_check = "check"
    /\ call.mode = "static"
    /\ pc = "raised"
    /\ error = "pre_assign"
    /\ trace[Len(trace)].is_future
    /\ \E k \in InsnSteps : trace[k].checked # <<>>
    /\ Remaining # {}

\* the ids of the Futures the current call has produced, holds and completed
ProducedFutures == 0..(next_future_id - 1)
PendingFutures == { futures[k].id : k \in 1..Len(futures) }
CompletionsOf(id) == { k \in FutureSteps : trace[k].future_id = id }

\* C17: every Future a call produced is either still held or was completed,
\* never both and never twice; when execute returns normally none is held, so
\* each was completed exactly once.
C17_FuturesCompletedOnce ==
    /\ Cardinality(PendingFutures) = Len(futures)
    /\ \A id \in PendingFutures : id \in ProducedFutures /\ CompletionsOf(id) = {}
    /\ \A id \in ProducedFutures \ PendingFutures : Cardinality(CompletionsOf(id)) = 1
    /\ \A k \in FutureSteps : trace[k].future_id \in ProducedFutures
    /\ pc = "returned" =>
           /\ futures = <<>>
           /\ \A id \in ProducedFutures : Cardinality(CompletionsOf(id)) = 1

C17_Witness ==
    /\ pc = "returned"
    /\ call.mode = "static"
    /\ next_future_id >= 3
    /\ futures = <<>>
    /\ \E k \in FutureSteps : trace[k].new_future_count = 1


\* C24 as stated: get_dependencies of an exchange instruction returns the
\* names occurring in its argument fields (it does not raise) and
\* get_assignees the names to receive, so the scheduler can test it for
\* readiness: no execute call ends in the TypeError of get_dependencies.
C24_ExchangeDependencies ==
    /\ \A i \in Indices :
           instructions[i].kind = "FluxExchangeBatchAssign" =>
               /\ ~get_dependencies_raises(instructions[i])
               /\ get_dependencies(instructions[i]) = instructions[i].deps
               /\ \A k \in 1..Len(instructions[i].names) :
                      instructions[i].names[k] \in get_assignees(instructions[i])
    /\ error # "TypeError"

\* C28: a replay that ran through its schedule and found a Future not ready
\* has run every instruction of the Code exactly once and holds no Future;
\* given a context with the key set of the recording run it did what that run
\* did, step by step, and ended as it ended with the same result; the schedule
\* is gone and the counter is one less.
C28_DelayedReplay ==
    (ReplayRanThrough /\ NotReadyCount > 0) =>
        /\ \A i \in Indices : ExecCount(i) = 1
        /\ futures = <<>>
        /\ \A id \in ProducedFutures : Cardinality(CompletionsOf(id)) = 1
        /\ call.keys = call.recorded_keys =>
               /\ Did(trace) = call.recorded_run.trace
               /\ pc = call.recorded_run.pc
               /\ retval = call.recorded_run.retval
        /\ last_schedule = None
        /\ static_schedule_attempts = call.pre_attempts - 1

C28_Witness ==
    /\ ReplayRanThrough
    /\ NotReadyCount = 2
    /\ call.keys = call.recorded_keys
    /\ pc = "returned"
    /\ DOMAIN retval = result
    /\ \E k \in Steps : trace[k].evicted # {}
    /\ last_schedule = None

\* the instructions that can ever run from a context with these keys: the
\* least set closed under "all dependencies are keys or assigned by the set"
RECURSIVE Runnable(_, _)
Runnable(keys, found) ==
    LET more == { i \in Indices \ found :
                    get_dependencies(instructions[i])
                        \subseteq keys \cup UNION { get_assignees(instructions[j]) : j \in found } }
    IN  IF more = {} THEN found ELSE Runnable(keys, found \cup more)

\* no instruction's execution method behaves differently from one execution
\* to the next
NoFlaky == \A i \in Indices : ~instructions[i].flaky

\* how many Futures stemming from instruction i the current call completed
CompletedOf(i) == Cardinality({ k \in FutureSteps : trace[k].insn = i })

\* C29 as stated: whatever the timing of the Futures, a dynamic run (without
\* a rejecting hook) has at its end run exactly the instructions runnable from
\* the initial context, each once, and completed all the Futures they yield;
\* when all are runnable it returns every result variable that is given or
\* assigned.
C29_TimingIndependence ==
    (call.mode = "dynamic" /\ CallEnded /\ pre_assign_check = "none" /\ NoFlaky) =>
        LET runnable == Runnable(call.keys, {})
        IN  /\ \A i \in Indices : ExecCount(i) = IF i \in runnable THEN 1 ELSE 0
            /\ \A i \in Indices :
                   CompletedOf(i) = IF i \in runnable THEN instructions[i].stages ELSE 0
            /\ futures = <<>>
            /\ (runnable = Indices /\ result \subseteq call.keys \cup AssignedNames) =>
                   /\ pc = "returned"
                   /\ DOMAIN retval = result

\* the number of Futures the entries before the k-th created
CreatedBefore(entries, k) ==
    IF k = 1 THEN 0
    ELSE LET count[m \in 1..(k - 1)] ==
                 entries[m].new_future_count + (IF m = 1 THEN 0 ELSE count[m - 1])
         IN  count[k - 1]

\* C30: in a recorded schedule each instruction of the Code is in exactly one
\* triple, each marker carries the id of a Future created by an earlier
\* triple, and no two markers carry the same id; a replay never fails to find
\* the Future of a marker.
C30_ScheduleWellFormed ==
    /\ ~last_schedule.is_none =>
           LET entries == last_schedule.entries
               markers == { k \in 1..Len(entries) : entries[k].is_future }
           IN  /\ \A i \in Indices :
                      Cardinality({ k \in 1..Len(entries) :
                                      ~entries[k].is_future /\ entries[k].insn = i }) = 1
               /\ \A k \in markers :
                      /\ entries[k].future_id >= 0
                      /\ entries[k].future_id < CreatedBefore(entries, k)
                      /\ \A m \in markers : entries[m].future_id = entries[k].future_id => m = k
    /\ call.mode = "static" =>
           \A k \in Steps : trace[k].is_future => trace[k].raises # "KeyError"

C30_Witness ==
    /\ call.mode = "static"
    /\ ~last_schedule.is_none
    /\ Cardinality({ k \in 1..Len(last_schedule.entries) :
                       last_schedule.entries[k].is_future }) = 3
    /\ Cardinality({ k \in Steps : trace[k].is_future }) = 3
    /\ pc = "returned"

\* the errors execute raises itself or hands on from the hook: instructions
\* left unreachable by a dynamic run, a number of new Futures other than the
\* recorded one in a replay, an assignment rejected by pre_assign_check
RaisedByExecute ==
    /\ pc = "raised"
    /\ error \in {"RuntimeError", "pre_assign"}

\* C31: when execute raises for an unreachable instruction (dynamic run), a
\* future-count mismatch (replay) or a rejection by the pre-assign hook
\* (either mode), last_schedule and static_schedule_attempts are what they
\* were before the call, also when the replay had already found a Future not
\* ready.
C31_ErrorFrame ==
    RaisedByExecute =>
        /\ last_schedule = call.pre_schedule
        /\ static_schedule_attempts = call.pre_attempts

C31_Witness ==
    /\ RaisedByExecute
    /\ call.mode = "static"
    /\ error = "RuntimeError"
    /\ SomeFutureNotReady
    /\ ~schedule_is_delay_free
    /\ last_schedule # None

\* the names the recorded dynamic run deleted at its step k
RecordedEviction(k) == call.recorded_run.trace[k].evicted

\* the names that only the context of the current call holds: neither in the
\* context of the recorded run nor assigned by an instruction
OnlyInLaterContext == call.keys \ (call.recorded_keys \cup AssignedNames)

\* C32: a replay deletes at each step exactly the names the recorded dynamic
\* run deleted at that step, whatever the keys of its own context; when one of
\* them is missing the call raises KeyError at that step, having deleted
\* nothing but recorded names, and schedules nothing dynamically; a name that
\* only the later context holds is never deleted.
C32_ReplayEvictsRecordedNames ==
    call.mode = "static" =>
        /\ pc # "dynamic"
        /\ done_insns = {}
        /\ \A k \in Steps :
               /\ trace[k].evicted \subseteq RecordedEviction(k)
               /\ RecordedEviction(k) \subseteq trace[k].keys_before
                      => trace[k].evicted = RecordedEviction(k)
               /\ ~(RecordedEviction(k) \subseteq trace[k].keys_before)
                      => /\ k = Len(trace)
                         /\ pc = "raised"
                         /\ error = "KeyError"
                         /\ trace[k].wrote = {}
                         /\ last_schedule = call.pre_schedule
               /\ k = Len(trace) /\ trace[k].raises = ""
                      => DOMAIN context =
                            (trace[k].keys_before \ RecordedEviction(k))
                                \cup trace[k].wrote
        /\ OnlyInLaterContext \subseteq DOMAIN context

\* a replay in a context that lacks a recorded name raises after it has
\* deleted another recorded name
C32_Witness ==
    /\ call.mode = "static"
    /\ pc = "raised"
    /\ error = "KeyError"
    /\ Len(trace) > 0
    /\ ~(RecordedEviction(Len(trace)) \subseteq trace[Len(trace)].keys_before)
    /\ trace[Len(trace)].evicted # {}
    /\ call.keys # call.recorded_keys

\* ------------------------------------------------- symbolic expressions

\* a name: the string `base`, `base_<n>` for n > 0, with "discr." in front of
\* it for a discretization-scoped name
Name(is_discr, base, n) == [is_discr |-> is_discr, base |-> base, n |-> n]

NoOp == [cls |-> "", axis |-> 0 - 1]

\* every expression node is a record of the same shape
Expr(kind, name, children, prefix, scope, op) ==
    [kind |-> kind, name |-> name, children |-> children, prefix |-> prefix,
     scope |-> scope, op |-> op]

\* pymbolic.var(name)
var(name) == Expr("var", name, <<>>, "", "", NoOp)

\* a variable of the input expression
Variable(base) == var(Name(FALSE, base, 0))

Sum(children) == Expr("sum", Name(FALSE, "", 0), children, "", "", NoOp)

\* prefix "" stands for prefix None
CommonSubexpression(child, prefix, scope) ==
    Expr("cse", Name(FALSE, "", 0), <<child>>, prefix, scope, NoOp)

OperatorBinding(op, field) == Expr("binding", Name(FALSE, "", 0), <<field>>, "", "", op)

\* Subscript(aggregate, index), the index a constant
Subscript(aggregate, index) ==
    Expr("subscript", Name(FALSE, "", 0), <<aggregate>>, "", "", [cls |-> "", axis |-> index])

\* a function symbol: a CFunction, or a function that is none
CFunction(name) == [cls |-> "CFunction", axis |-> 0 - 1, name |-> name]
FunctionSymbol(name) == [cls |-> "FunctionSymbol", axis |-> 0 - 1, name |-> name]

\* Call(function, parameters)
Call(function, parameters) ==
    Expr("call", Name(FALSE, function.name, 0), parameters, "", "",
         [cls |-> function.cls, axis |-> function.axis])

\* isinstance(expr, (Variable, Subscript))
IsVariableOrSubscript(expr) == expr.kind \in {"var", "subscript"}

RefDiffOperator(axis) == [cls |-> "RefDiffOperator", axis |-> axis]
RefStiffnessTOperator(axis) == [cls |-> "RefStiffnessTOperator", axis |-> axis]
RefMassOperator == [cls |-> "RefMassOperator", axis |-> 0 - 1]

\* isinstance(op, sym.RefDiffOperatorBase)
IsRefDiffOperator(op) == op.cls \in {"RefDiffOperator", "RefStiffnessTOperator"}

\* the operators are of one class and differ at most in their axis
equal_except_for_axis(op, other) == op.cls = other.cls

\* sym.cse(expr, prefix): an expression that is a common subexpression already
\* is not wrapped again
cse(expr, prefix) ==
    IF expr.kind = "cse" THEN expr ELSE CommonSubexpression(expr, prefix, "EVALUATION")

\* the operator bindings of expr whose operator is a differential operator
RECURSIVE collect_diff_ops(_)
collect_diff_ops(expr) ==
    (IF expr.kind = "binding" /\ IsRefDiffOperator(expr.op) THEN {expr} ELSE {})
        \cup UNION { collect_diff_ops(expr.children[k]) : k \in 1..Len(expr.children) }

\* mutant of UniqueName: the names given out before are not looked at
UniqueName_Based(taken, is_discr, based_on) == Name(is_discr, based_on, 0)

\* UniqueNameGenerator.__call__(based_on): the first of based_on, based_on_1,
\* ... that was not given out before (taken: the names given out)
UniqueName(taken, is_discr, based_on) ==
    LET free == { n \in 0..Cardinality(taken) : Name(is_discr, based_on, n) \notin taken }
    IN  Name(is_discr, based_on, CHOOSE n \in free : \A m \in free : n <= m)

\* ---------------------------------------------------- instructions emitted

Emitted(kind, names, exprs, priority, operators) ==
    [kind |-> kind, names |-> names, exprs |-> exprs, priority |-> priority,
     operators |-> operators]

\* Assign((new_name,), (expr,), priority=priority)
AssignExpr(name, expr, priority) == Emitted("Assign", <<name>>, <<expr>>, priority, <<>>)

ToDiscretizationScopedAssign(name, expr, priority) ==
    Emitted("ToDiscretizationScopedAssign", <<name>>, <<expr>>, priority, <<>>)

FromDiscretizationScopedAssign(name, priority) ==
    Emitted("FromDiscretizationScopedAssign", <<name>>, <<>>, priority, <<>>)

DiffBatchAssign(names, operators, field) ==
    Emitted("DiffBatchAssign", names, <<field>>, 0, operators)

\* ------------------------------------------------------- OperatorCompiler

\* Then(value), with value evaluated once however often Then uses it
Once(value, Then(_)) == CHOOSE r \in { Then(x) : x \in {value} } : TRUE

\* OperatorCompiler.__init__(discr): the fields of a new compiler; diff_order
\* is the order in which the set diff_ops happens to be iterated, log the
\* history of what the compiler met
OperatorCompiler_init(d, diff_order) ==
    [discr_code |-> <<>>, discr_scope_names_created |-> {},
     discr_scope_names_copied_to_eval |-> {}, eval_code |-> <<>>,
     expr_to_var |-> [e \in {} |-> e], name_gen |-> {}, diff_ops |-> {},
     diff_order |-> diff_order, discr |-> d, log |-> <<>>, error |-> ""]

\* mutant of AppendToCodeList: the stream does not follow the mode
AppendToCodeList_EvalOnly(st, generating_discr_code, insn) == [st EXCEPT !.eval_code = Append(@, insn)]

\* codegen_state.get_code_list(self).append(insn)
AppendToCodeList(st, generating_discr_code, insn) ==
    IF generating_discr_code
    THEN [st EXCEPT !.discr_code = Append(@, insn)]
    ELSE [st EXCEPT !.eval_code = Append(@, insn)]

\* what the compiler did on meeting expr: the names it resolved it to, whether
\* it found them in the cache, the instructions it appended itself, and the
\* lengths of the two streams before and after (the lowering of the operands
\* included)
Logged(before, after, kind, expr, names, generating_discr_code, cached, emitted) ==
    [after EXCEPT !.log = Append(@,
        [kind |-> kind, expr |-> expr, names |-> names,
         generating_discr_code |-> generating_discr_code, cached |-> cached,
         emitted |-> emitted,
         discr_before |-> Len(before.discr_code), eval_before |-> Len(before.eval_code),
         discr_after |-> Len(after.discr_code), eval_after |-> Len(after.eval_code)])]

\* what the compiler did on meeting an expression with operands: as Logged,
\* with the operands as the mapper rewrote them (lowered), as they stand in
\* the instruction of the expression (operands), the expression returned
\* (value) and the lengths of the streams once the operands are dealt with
LoggedOperands(before, mid, after, kind, expr, lowered, operands, value, generating_discr_code, cached) ==
    [after EXCEPT !.log = Append(@,
        [kind |-> kind, expr |-> expr, names |-> <<value.name>>,
         generating_discr_code |-> generating_discr_code, cached |-> cached,
         emitted |-> {},
         discr_before |-> Len(before.discr_code), eval_before |-> Len(before.eval_code),
         discr_after |-> Len(after.discr_code), eval_after |-> Len(after.eval_code),
         lowered |-> lowered, operands |-> operands, value |-> value,
         discr_mid |-> Len(mid.discr_code), eval_mid |-> Len(mid.eval_code)])]

PrefixOrExpr(prefix) == IF prefix # "" THEN prefix ELSE "expr"

\* mutant of assign_to_new_var: a variable is assigned to a new variable too
assign_to_new_var_Always(st, generating_discr_code, expr, priority, prefix) ==
    LET new_name == UniqueName(st.name_gen, FALSE, PrefixOrExpr(prefix))
    IN  [value |-> var(new_name),
         st |-> AppendToCodeList([st EXCEPT !.name_gen = @ \cup {new_name}],
                                 generating_discr_code,
                                 AssignExpr(new_name, expr, priority))]

assign_to_new_var(st, generating_discr_code, expr, priority, prefix) ==
    IF IsVariableOrSubscript(expr)
    THEN [value |-> expr, st |-> st]
    ELSE LET new_name == UniqueName(st.name_gen, FALSE, PrefixOrExpr(prefix))
         IN  [value |-> var(new_name),
              st |-> AppendToCodeList([st EXCEPT !.name_gen = @ \cup {new_name}],
                                      generating_discr_code,
                                      AssignExpr(new_name, expr, priority))]

\* mutant of DiscrScopedName: the cache of the discretization is not consulted
DiscrScopedName_AlwaysFresh(d, child, prefix) == UniqueName(d.discr_scoped_name_gen, TRUE, PrefixOrExpr(prefix))

\* the name of the discretization-scoped subexpression with this child: the one
\* the discretization has cached for it, or a new "discr." name
DiscrScopedName(d, child, prefix) ==
    IF child \in DOMAIN d.discr_scoped_subexpr_to_name
    THEN d.discr_scoped_subexpr_to_name[child]
    ELSE UniqueName(d.discr_scoped_name_gen, TRUE, PrefixOrExpr(prefix))

\* the discretization after the name was looked up or generated
RememberName(d, child, expr_name) ==
    IF child \in DOMAIN d.discr_scoped_subexpr_to_name
    THEN d
    ELSE [discr_scoped_name_gen |-> d.discr_scoped_name_gen \cup {expr_name},
          discr_scoped_subexpr_to_name |->
              (child :> expr_name) @@ d.discr_scoped_subexpr_to_name]

\* mutant of NeedsCopy: the read is emitted whatever code is being generated
NeedsCopy_AnyScope(copied, expr_name, generating_discr_code) == expr_name \notin copied

\* a FromDiscretizationScopedAssign has to be appended to eval_code
NeedsCopy(copied, expr_name, generating_discr_code) ==
    ~generating_discr_code /\ expr_name \notin copied

\* mutant of AllDiffs: the operators of the other axes are left out
AllDiffs_SameAxisOnly(diff_ops, expr) == { diff \in diff_ops : diff = expr }

\* all_diffs: the collected bindings that go into one batch with expr
AllDiffs(diff_ops, expr) ==
    { diff \in diff_ops :
        /\ equal_except_for_axis(diff.op, expr.op)
        /\ diff.children[1] = expr.children[1] }

\* a set of bindings of distinct axes as the list a loop over the set yields
RECURSIVE Iterate(_, _)
Iterate(diffs, diff_order) ==
    IF diffs = {} THEN <<>>
    ELSE LET first == CHOOSE d \in diffs : \A e \in diffs :
                          IF diff_order = "ascending" THEN d.op.axis <= e.op.axis
                          ELSE d.op.axis >= e.op.axis
         IN  <<first>> \o Iterate(diffs \ {first}, diff_order)

\* for n, d in zip(names, all_diffs): self.expr_to_var[d] = var(n)
RECURSIVE RememberDiffs(_, _, _)
RememberDiffs(expr_to_var, names, all_diffs) ==
    IF names = <<>> THEN expr_to_var
    ELSE RememberDiffs((Head(all_diffs) :> var(Head(names))) @@ expr_to_var,
                       Tail(names), Tail(all_diffs))

\* [self.name_gen("expr") for d in all_diffs]: the names and the generator after
RECURSIVE NewNames(_, _)
NewNames(taken, count) ==
    IF count = 0 THEN [names |-> <<>>, taken |-> taken]
    ELSE LET name == UniqueName(taken, FALSE, "expr")
             more == NewNames(taken \cup {name}, count - 1)
         IN  [names |-> <<name>> \o more.names, taken |-> more.taken]

\* the mapper: each method takes the expression, the compiler and
\* codegen_state.generating_discr_code, and gives the rewritten expression
\* and the compiler after it
RECURSIVE rec(_, _, _)
RECURSIVE rec_children(_, _, _)
RECURSIVE map_common_subexpression(_, _, _)
RECURSIVE map_operator_binding(_, _, _, _)
RECURSIVE map_ref_diff_op_binding(_, _, _)
RECURSIVE get_rec_child(_, _, _)
RECURSIVE DiscrScoped(_, _, _, _)
RECURSIVE map_call(_, _, _)
RECURSIVE map_subscript(_, _, _)
RECURSIVE assigned_parameters(_, _, _)

\* IdentityMapper on the operands of a sum, from left to right
rec_children(children, st, generating_discr_code) ==
    IF children = <<>>
    THEN [values |-> <<>>, st |-> st]
    ELSE Once(rec(Head(children), st, generating_discr_code), LAMBDA first :
         Once(rec_children(Tail(children), first.st, generating_discr_code), LAMBDA others :
         [values |-> <<first.value>> \o others.values, st |-> others.st]))

\* an exception raised in the walk ends it: nothing is lowered after it
rec(expr, st, generating_discr_code) ==
    CASE st.error # "" -> [value |-> expr, st |-> st]
      [] expr.kind = "var" -> [value |-> expr, st |-> st]
      [] expr.kind = "sum" ->
            Once(rec_children(expr.children, st, generating_discr_code), LAMBDA operands :
            [value |-> Sum(operands.values), st |-> operands.st])
      [] expr.kind = "cse" -> map_common_subexpression(expr, st, generating_discr_code)
      [] expr.kind = "binding" -> map_operator_binding(expr, st, generating_discr_code, "")
      [] expr.kind = "call" -> map_call(expr, st, generating_discr_code)
      [] expr.kind = "subscript" -> map_subscript(expr, st, generating_discr_code)

get_rec_child(expr, st, generating_discr_code) ==
    IF expr.children[1].kind = "binding"
    THEN map_operator_binding(expr.children[1], st, generating_discr_code, expr.prefix)
    ELSE rec(expr.children[1], st, generating_discr_code)

\* the discretization-scoped branch once the name is known
DiscrScoped(expr, st, generating_discr_code, expr_name) ==
    LET child == expr.children[1]
        cached == child \in DOMAIN st.discr.discr_scoped_subexpr_to_name
        create == expr_name \notin st.discr_scope_names_created
        named == [st EXCEPT !.discr = RememberName(@, child, expr_name)]
    IN  Once(IF create
             THEN Once(get_rec_child(expr, named, TRUE), LAMBDA rec_child :
                  [AppendToCodeList(rec_child.st, TRUE,
                       ToDiscretizationScopedAssign(expr_name, rec_child.value, 0))
                   EXCEPT !.discr_scope_names_created = @ \cup {expr_name}])
             ELSE named, LAMBDA created :
        LET copy == NeedsCopy(created.discr_scope_names_copied_to_eval, expr_name,
                              generating_discr_code)
            copied ==
                IF copy
                THEN [created EXCEPT
                         !.eval_code = Append(@, FromDiscretizationScopedAssign(expr_name, 0)),
                         !.discr_scope_names_copied_to_eval = @ \cup {expr_name}]
                ELSE created
            emitted ==
                (IF create THEN {"ToDiscretizationScopedAssign"} ELSE {})
                    \cup (IF copy THEN {"FromDiscretizationScopedAssign"} ELSE {})
        IN  [value |-> var(expr_name),
             st |-> Logged(st, copied, "discr_cse", expr, <<expr_name>>,
                           generating_discr_code, cached, emitted)])

map_common_subexpression(expr, st, generating_discr_code) ==
    LET child == expr.children[1]
    IN  IF expr.scope = "DISCRETIZATION"
        THEN Once(DiscrScopedName(st.discr, child, expr.prefix), LAMBDA expr_name :
             DiscrScoped(expr, st, generating_discr_code, expr_name))
        ELSE IF child \in DOMAIN st.expr_to_var
             THEN [value |-> st.expr_to_var[child],
                   st |-> LoggedOperands(st, st, st, "eval_cse", expr,
                                         <<st.expr_to_var[child]>>, <<st.expr_to_var[child]>>,
                                         st.expr_to_var[child], generating_discr_code, TRUE)]
             ELSE Once(get_rec_child(expr, st, generating_discr_code), LAMBDA rec_child :
                  Once(assign_to_new_var(rec_child.st, generating_discr_code,
                                         rec_child.value, 0, expr.prefix), LAMBDA cse_var :
                  [value |-> cse_var.value,
                   st |-> LoggedOperands(st, rec_child.st,
                                         [cse_var.st EXCEPT
                                             !.expr_to_var = (child :> cse_var.value) @@ @],
                                         "eval_cse", expr, <<rec_child.value>>,
                                         <<cse_var.value>>, cse_var.value,
                                         generating_discr_code, FALSE)]))

map_operator_binding(expr, st, generating_discr_code, name_hint) ==
    IF IsRefDiffOperator(expr.op)
    THEN map_ref_diff_op_binding(expr, st, generating_discr_code)
    ELSE Once(rec(expr.children[1], st, generating_discr_code), LAMBDA field :
         Once(assign_to_new_var(field.st, generating_discr_code, field.value, 0, ""),
              LAMBDA field_var :
         Once(assign_to_new_var(field_var.st, generating_discr_code,
                                OperatorBinding(expr.op, field_var.value), 0, name_hint),
              LAMBDA result_var :
         [value |-> result_var.value,
          st |-> LoggedOperands(st, field_var.st, result_var.st, "binding", expr,
                                <<field.value>>, <<field_var.value>>, result_var.value,
                                generating_discr_code, FALSE)])))

\* [self.assign_to_new_var(codegen_state, self.rec(par, codegen_state))
\*  for par in expr.parameters]
assigned_parameters(parameters, st, generating_discr_code) ==
    IF parameters = <<>>
    THEN [values |-> <<>>, lowered |-> <<>>, st |-> st]
    ELSE Once(rec(Head(parameters), st, generating_discr_code), LAMBDA par :
         Once(assign_to_new_var(par.st, generating_discr_code, par.value, 0, ""),
              LAMBDA par_var :
         Once(assigned_parameters(Tail(parameters), par_var.st, generating_discr_code),
              LAMBDA others :
         [values |-> <<par_var.value>> \o others.values,
          lowered |-> <<par.value>> \o others.lowered,
          st |-> others.st])))

\* from grudge.symbolic.primitives import CFunction: primitives.py defines
\* FunctionSymbol and no CFunction
CFunctionIsDefined == FALSE

map_call(expr, st, generating_discr_code) ==
    IF ~CFunctionIsDefined
    THEN [value |-> expr, st |-> [st EXCEPT !.error = "ImportError"]]
    ELSE IF expr.op.cls = "CFunction"
    THEN Once(rec_children(expr.children, st, generating_discr_code), LAMBDA parameters :
         [value |-> [expr EXCEPT !.children = parameters.values], st |-> parameters.st])
    ELSE Once(assigned_parameters(expr.children, st, generating_discr_code),
              LAMBDA parameters :
         Once(assign_to_new_var(parameters.st, generating_discr_code,
                                [expr EXCEPT !.children = parameters.values], 0, ""),
              LAMBDA result_var :
         [value |-> result_var.value,
          st |-> LoggedOperands(st, parameters.st, result_var.st, "call", expr,
                                parameters.lowered, parameters.values, result_var.value,
                                generating_discr_code, FALSE)]))

\* IdentityMapper on a subscript: the aggregate is rewritten, the index kept
map_subscript(expr, st, generating_discr_code) ==
    Once(rec(expr.children[1], st, generating_discr_code), LAMBDA aggregate :
    [value |-> [expr EXCEPT !.children = <<aggregate.value>>], st |-> aggregate.st])

map_ref_diff_op_binding(expr, st, generating_discr_code) ==
    IF expr \in DOMAIN st.expr_to_var
    THEN [value |-> st.expr_to_var[expr],
          st |-> Logged(st, st, "diff", expr, <<st.expr_to_var[expr].name>>,
                        generating_discr_code, TRUE, {})]
    ELSE Once(Iterate(AllDiffs(st.diff_ops, expr), st.diff_order), LAMBDA all_diffs :
         Once(NewNames(st.name_gen, Len(all_diffs)), LAMBDA new :
         Once(rec(expr.children[1], [st EXCEPT !.name_gen = new.taken],
                  generating_discr_code), LAMBDA field :
         Once([AppendToCodeList(field.st, generating_discr_code,
                   DiffBatchAssign(new.names,
                       [k \in 1..Len(all_diffs) |-> all_diffs[k].op], field.value))
               EXCEPT !.expr_to_var = RememberDiffs(@, new.names, all_diffs)],
              LAMBDA after :
         [value |-> after.expr_to_var[expr],
          st |-> Logged(st, after, "diff", expr, new.names, generating_discr_code,
                        FALSE, {"DiffBatchAssign"})]))))

\* OperatorCompiler(discr)(expr): the two Codes, the compiler's history and
\* the discretization afterwards; no Code when the walk raised
OperatorCompiler_call(expr, d, diff_order) ==
    Once(cse(expr, "_result"), LAMBDA wrapped :
    Once(collect_diff_ops(wrapped), LAMBDA diff_ops :
    Once(rec(wrapped, [OperatorCompiler_init(d, diff_order) EXCEPT !.diff_ops = diff_ops],
             FALSE), LAMBDA walked :
    IF walked.st.error # ""
    THEN [expr |-> expr, diff_order |-> diff_order, diff_ops |-> diff_ops,
          discr_code |-> <<>>, discr_result |-> {}, eval_code |-> <<>>,
          result |-> walked.value, log |-> <<>>, discr_before |-> d,
          discr |-> walked.st.discr, error |-> walked.st.error]
    ELSE [expr |-> expr, diff_order |-> diff_order, diff_ops |-> diff_ops,
          discr_code |-> walked.st.discr_code,
          discr_result |-> walked.st.discr_scope_names_copied_to_eval,
          eval_code |-> walked.st.eval_code, result |-> walked.value,
          log |-> walked.st.log, discr_before |-> d, discr |-> walked.st.discr,
          error |-> ""])))

\* -------------------------------------------------- the aggregation pass

\* the expression and all its subexpressions
RECURSIVE Nodes(_)
Nodes(expr) ==
    {expr} \cup UNION { Nodes(expr.children[k]) : k \in 1..Len(expr.children) }

\* the constant 0
Zero == Expr("constant", Name(FALSE, "0", 0), <<>>, "", "", NoOp)

is_zero(expr) == expr = Zero

\* _make_dep_mapper(include_subscripts=False)(expr): the variables of expr
dep_mapper(expr) == { node \in Nodes(expr) : node.kind = "var" }

\* mappers.FlopCounter()(expr): the additions and the calls of expr
RECURSIVE FlopCounter(_)
RECURSIVE FlopCounterAll(_)
FlopCounter(expr) ==
    (CASE expr.kind = "sum" -> Len(expr.children) - 1
       [] expr.kind = "call" -> 1
       [] OTHER -> 0) + FlopCounterAll(expr.children)

\* sum(mappers.FlopCounter()(expr) for expr in exprs)
FlopCounterAll(exprs) ==
    IF exprs = <<>> THEN 0 ELSE FlopCounter(Head(exprs)) + FlopCounterAll(Tail(exprs))

flop_count(insn) == FlopCounterAll(insn.exprs)

\* isinstance(insn, Assign)
IsAssign(insn) == insn.kind \in {"Assign", "ToDiscretizationScopedAssign"}

\* insn.get_dependencies() of an instruction of the compiler
Emitted_get_dependencies(insn) ==
    CASE IsAssign(insn) ->
            UNION { dep_mapper(insn.exprs[k]) : k \in 1..Len(insn.exprs) }
                \ { var(insn.names[k]) : k \in 1..Len(insn.names) }
      [] insn.kind = "FromDiscretizationScopedAssign" -> {}
      [] insn.kind = "DiffBatchAssign" -> dep_mapper(insn.exprs[1])

get_var_assignees(insn) == { var(assignee) : assignee \in get_assignees(insn) }

\* dict((assignee, insn) for insn in instructions for assignee in insn.get_assignees())
RECURSIVE OriginsMap(_)
OriginsMap(insns) ==
    IF insns = <<>> THEN [n \in {} |-> n]
    ELSE [n \in get_assignees(insns[Len(insns)]) |-> insns[Len(insns)]]
             @@ OriginsMap(SubSeq(insns, 1, Len(insns) - 1))

\* mutant of get_complete_origins_set: no origin is found
get_complete_origins_set_None(origins_map, insn, skip_levels) == {}

RECURSIVE get_complete_origins_set(_, _, _)
get_complete_origins_set(origins_map, insn, skip_levels) ==
    UNION { IF dep.name \in DOMAIN origins_map
            THEN (IF skip_levels <= 0 THEN {origins_map[dep.name]} ELSE {})
                     \cup get_complete_origins_set(origins_map, origins_map[dep.name],
                                                   skip_levels - 1)
            ELSE {} : dep \in Emitted_get_dependencies(insn) }

\* mutant of aggregate_two_assignments: the second assignment is dropped
aggregate_two_assignments_FirstOnly(ass_1, ass_2) == ass_1

aggregate_two_assignments(ass_1, ass_2) ==
    Emitted("Assign", ass_1.names \o ass_2.names, ass_1.exprs \o ass_2.exprs,
            IF ass_1.priority >= ass_2.priority THEN ass_1.priority ELSE ass_2.priority,
            <<>>)

\* the loop over unprocessed_assigns that moves assignments of a zero to the
\* processed ones: it pops the last one, whichever it looks at
RECURSIVE ZeroFilter(_, _, _)
ZeroFilter(i, unprocessed_assigns, processed_assigns) ==
    IF i < Len(unprocessed_assigns)
    THEN IF \E k \in 1..Len(unprocessed_assigns[i + 1].exprs) :
                is_zero(unprocessed_assigns[i + 1].exprs[k])
         THEN ZeroFilter(i, SubSeq(unprocessed_assigns, 1, Len(unprocessed_assigns) - 1),
                         Append(processed_assigns,
                                unprocessed_assigns[Len(unprocessed_assigns)]))
         ELSE ZeroFilter(i + 1, unprocessed_assigns, processed_assigns)
    ELSE [unprocessed_assigns |-> unprocessed_assigns,
          processed_assigns |-> processed_assigns]

\* mutant of Related: any two assignments pass
Related_Always(my_assign, other_assign) == TRUE

\* my_deps & other_deps or my_deps & other_assignees or other_deps & my_assignees
Related(my_assign, other_assign) ==
    \/ Emitted_get_dependencies(my_assign) \cap Emitted_get_dependencies(other_assign) # {}
    \/ Emitted_get_dependencies(my_assign) \cap get_var_assignees(other_assign) # {}
    \/ Emitted_get_dependencies(other_assign) \cap get_var_assignees(my_assign) # {}

\* mutant of IsCandidate: the priorities are not compared
IsCandidate_AnyPriority(my_assign, other_assign) == Related(my_assign, other_assign)

\* the condition under which other_assign becomes a candidate for my_assign
IsCandidate(my_assign, other_assign) ==
    /\ Related(my_assign, other_assign)
    /\ my_assign.priority = other_assign.priority

\* mutant of TooManyVectors: the names assigned are not counted
TooManyVectors_DepsOnly(max_vectors_in_batch_expr, my_assign, other_assign) == max_vectors_in_batch_expr # 0 /\ Cardinality(Emitted_get_dependencies(my_assign) \cup Emitted_get_dependencies(other_assign)) > max_vectors_in_batch_expr

\* the merged assignment would go over max_vectors_in_batch_expr (0: None)
TooManyVectors(max_vectors_in_batch_expr, my_assign, other_assign) ==
    /\ max_vectors_in_batch_expr # 0
    /\ Cardinality(get_assignees(my_assign) \cup get_assignees(other_assign))
         + Cardinality(Emitted_get_dependencies(my_assign)
                           \cup Emitted_get_dependencies(other_assign))
           > max_vectors_in_batch_expr

\* mutant of MayMerge: only the origins of other_assign are looked at
MayMerge_OneWay(origins_map, my_assign, other_assign) == my_assign \notin get_complete_origins_set(origins_map, other_assign, 1)

\* neither assignment is among the indirect origins of the other
MayMerge(origins_map, my_assign, other_assign) ==
    /\ my_assign \notin get_complete_origins_set(origins_map, other_assign, 1)
    /\ other_assign \notin get_complete_origins_set(origins_map, my_assign, 1)

\* the positions of the candidates that the loop over agg_candidates would
\* aggregate with my_assign; it takes the first
Aggregable(agg, my_assign, others) ==
    { k \in 1..Len(others) :
        /\ IsCandidate(my_assign, others[k])
        /\ ~TooManyVectors(agg.max_vectors_in_batch_expr, my_assign, others[k])
        /\ MayMerge(agg.origins_map, my_assign, others[k]) }

\* history: the candidates the loop over agg_candidates passed over for their
\* origins before it aggregated one or came to its end
PassedOver(agg, my_assign, others) ==
    { [my_assign |-> my_assign, other_assign |-> others[k]] :
        k \in { k \in 1..Len(others) :
                  /\ IsCandidate(my_assign, others[k])
                  /\ ~TooManyVectors(agg.max_vectors_in_batch_expr, my_assign, others[k])
                  /\ ~MayMerge(agg.origins_map, my_assign, others[k])
                  /\ \A m \in Aggregable(agg, my_assign, others) : k < m } }

\* history: the candidates the loop over agg_candidates skipped for the
\* number of their vectors before it aggregated one or came to its end
SkippedOver(agg, my_assign, others) ==
    { [my_assign |-> my_assign, other_assign |-> others[k]] :
        k \in { k \in 1..Len(others) :
                  /\ IsCandidate(my_assign, others[k])
                  /\ TooManyVectors(agg.max_vectors_in_batch_expr, my_assign, others[k])
                  /\ \A m \in Aggregable(agg, my_assign, others) : k < m } }

\* the sequences that hold each element of a set once
Orderings(S) ==
    { seq \in [1..Cardinality(S) -> S] :
        \A a, b \in 1..Cardinality(S) : a # b => seq[a] # seq[b] }

\* the names among my_assignees that the k-th expression of ass depends on
InnerDeps(ass, k) ==
    { dep.name : dep \in dep_mapper(ass.exprs[k]) } \cap get_assignees(ass)

\* the orders in which schedule_and_finalize_assignment may put the pairs of
\* ass that remain: in every round those whose dependencies are available, in
\* the order of their printed expressions, which is left open here; no order
\* when a round finds none (RuntimeError)
RECURSIVE Schedules(_, _, _)
Schedules(ass, remaining, available_names) ==
    IF remaining = {} THEN {<<>>}
    ELSE LET schedulable == { k \in remaining : InnerDeps(ass, k) \subseteq available_names }
         IN  IF schedulable = {} THEN {}
             ELSE { first \o rest :
                      first \in Orderings(schedulable),
                      rest \in Schedules(ass, remaining \ schedulable,
                                         available_names
                                             \cup { ass.names[k] : k \in schedulable }) }

finalize_multi_assign(names, exprs, do_not_return, priority) ==
    [kind |-> "Assign", names |-> names, exprs |-> exprs, priority |-> priority,
     operators |-> <<>>, do_not_return |-> do_not_return]

\* the assignments schedule_and_finalize_assignment(ass) may return
schedule_and_finalize_assignment(ass, externally_used_names) ==
    { finalize_multi_assign([k \in 1..Len(order) |-> ass.names[order[k]]],
                            [k \in 1..Len(order) |-> ass.exprs[order[k]]],
                            [k \in 1..Len(order) |->
                                var(ass.names[order[k]]) \notin externally_used_names],
                            ass.priority) :
        order \in Schedules(ass, 1..Len(ass.names), {}) }

\* [schedule_and_finalize_assignment(ass) for ass in processed_assigns]: the
\* lists it may be, none when an assignment is impossible
RECURSIVE Finalized(_, _)
Finalized(processed_assigns, externally_used_names) ==
    IF processed_assigns = <<>> THEN {<<>>}
    ELSE { <<first>> \o rest :
             first \in schedule_and_finalize_assignment(Head(processed_assigns),
                                                        externally_used_names),
             rest \in Finalized(Tail(processed_assigns), externally_used_names) }

\* mutant of ExternallyUsedNames: the result is left out
ExternallyUsedNames_NoResult(agg) == UNION { Emitted_get_dependencies(agg.processed_assigns[k]) : k \in 1..Len(agg.processed_assigns) } \cup UNION { Emitted_get_dependencies(agg.other_insns[k]) : k \in 1..Len(agg.other_insns) }

\* the dependencies of the processed and the other instructions, and the result
ExternallyUsedNames(agg) ==
    UNION { Emitted_get_dependencies(agg.processed_assigns[k]) :
              k \in 1..Len(agg.processed_assigns) }
        \cup UNION { Emitted_get_dependencies(agg.other_insns[k]) :
                       k \in 1..Len(agg.other_insns) }
        \cup {agg.result}

scheduler_vars ==
    <<instructions, result, last_schedule, static_schedule_attempts, pc, error,
      retval, context, pre_assign_check, futures, next_future_id, done_insns,
      force_future, schedule, position, schedule_is_delay_free, trace, call,
      recorded, failed_replays, printed>>

\* aggregate_assignments(instructions, result) is called
AggregationOf(insns, res, max_vectors_in_batch_expr) ==
    [NotAggregating EXCEPT !.pc = "called", !.instructions = insns, !.result = res,
                           !.max_vectors_in_batch_expr = max_vectors_in_batch_expr]

\* the pass up to the greedy loop: the origins, the two partitions and the
\* filter for assignments of a zero
StartAggregation ==
    /\ aggregation.pc = "called"
    /\ LET assigns == SelectSeq(aggregation.instructions, IsAssign)
           filtered == ZeroFilter(0,
                           SelectSeq(assigns, LAMBDA ass : flop_count(ass) # 0),
                           SelectSeq(assigns, LAMBDA ass : flop_count(ass) = 0))
       IN  aggregation' =
               [aggregation EXCEPT
                   !.pc = "greedy",
                   !.origins_map = OriginsMap(aggregation.instructions),
                   !.other_insns = SelectSeq(aggregation.instructions,
                                             LAMBDA insn : ~IsAssign(insn)),
                   !.unprocessed_assigns = filtered.unprocessed_assigns,
                   !.processed_assigns = filtered.processed_assigns,
                   !.bypassed = { filtered.processed_assigns[k] :
                                    k \in 1..Len(filtered.processed_assigns) }]
    /\ UNCHANGED <<str_vars, scheduler_vars, discr, compilations>>

\* one turn of the greedy loop: the last unprocessed assignment is aggregated
\* with the first candidate that may be, or moved to the processed ones
AggregateNext ==
    /\ aggregation.pc = "greedy"
    /\ aggregation.unprocessed_assigns # <<>>
    /\ LET my_assign == aggregation.unprocessed_assigns[Len(aggregation.unprocessed_assigns)]
           others == SubSeq(aggregation.unprocessed_assigns, 1,
                            Len(aggregation.unprocessed_assigns) - 1)
           aggregable == Aggregable(aggregation, my_assign, others)
       IN  IF aggregable # {}
           THEN LET other_assign_index == CHOOSE k \in aggregable : \A m \in aggregable : k <= m
                    new_assignment ==
                        aggregate_two_assignments(my_assign, others[other_assign_index])
                IN  aggregation' =
                        [aggregation EXCEPT
                            !.unprocessed_assigns =
                                Append(RemoveAt(others, other_assign_index), new_assignment),
                            !.origins_map =
                                [n \in get_assignees(new_assignment) |-> new_assignment] @@ @,
                            !.rejected = @ \cup PassedOver(aggregation, my_assign, others),
                            !.skipped = @ \cup SkippedOver(aggregation, my_assign, others),
                            !.merges = Append(@,
                                [my_assign |-> my_assign,
                                 other_assign |-> others[other_assign_index],
                                 insns |-> aggregation.unprocessed_assigns
                                               \o aggregation.processed_assigns
                                               \o aggregation.other_insns])]
           ELSE aggregation' =
                    [aggregation EXCEPT
                        !.unprocessed_assigns = others,
                        !.rejected = @ \cup PassedOver(aggregation, my_assign, others),
                        !.skipped = @ \cup SkippedOver(aggregation, my_assign, others),
                        !.processed_assigns = Append(@, my_assign)]
    /\ UNCHANGED <<str_vars, scheduler_vars, discr, compilations>>

\* the pass after the greedy loop: every processed assignment is put in order
\* and finalized, the other instructions follow
FinishAggregation ==
    /\ aggregation.pc = "greedy"
    /\ aggregation.unprocessed_assigns = <<>>
    /\ LET finalized == Finalized(aggregation.processed_assigns,
                                  ExternallyUsedNames(aggregation))
       IN  IF finalized = {}
           THEN aggregation' = [aggregation EXCEPT !.pc = "raised"]
           ELSE \E chosen \in finalized :
                    aggregation' =
                        [aggregation EXCEPT
                            !.pc = "done",
                            !.output = chosen \o aggregation.other_insns]
    /\ UNCHANGED <<str_vars, scheduler_vars, discr, compilations>>

\* ----------------------------------------- inputs of the aggregation pass

MaxInsns == 3

\* the name the k-th instruction assigns
AName(k) == Name(FALSE, "a", k)

\* what the k-th instruction may depend on: a variable of the context or the
\* name of an earlier instruction
Operand(j) == IF j = 0 THEN Variable("x") ELSE var(AName(j))

\* the k-th instruction: a sum of two operands, a sum of higher priority, an
\* operator applied to the name before (no flops), a batch of one derivative,
\* or a sum together with a zero
SlotChoices(k) ==
    { AssignExpr(AName(k), Sum(<<Operand(pair[1]), Operand(pair[2])>>), 0) :
          pair \in { pair \in (0..(k - 1)) \X (0..(k - 1)) : pair[1] <= pair[2] } }
        \cup { AssignExpr(AName(k), Sum(<<Operand(0), Operand(0)>>), 1),
               AssignExpr(AName(k), OperatorBinding(RefMassOperator, Operand(k - 1)), 0),
               Emitted("Assign", <<AName(k), Name(FALSE, "z", k)>>,
                       <<Sum(<<Operand(0), Operand(0)>>), Zero>>, 0, <<>>) }
        \cup { DiffBatchAssign(<<AName(k)>>, <<RefDiffOperator(0)>>, Operand(j)) :
                   j \in 0..(k - 1) }

\* the instruction lists of n instructions, each depending on earlier ones only
RECURSIVE InstructionLists(_)
InstructionLists(n) ==
    IF n = 0 THEN {<<>>}
    ELSE { Append(insns, insn) : insns \in InstructionLists(n - 1), insn \in SlotChoices(n) }

\* max_vectors_in_batch_expr: None (0) or a number
BatchLimits == {0, 4}

\* ------------------------------------------------ inputs of the compiler

MaxCompilations == 2

u == Variable("u")
v == Variable("v")

\* the derivative of field along an axis
Diff(axis, field) == OperatorBinding(RefDiffOperator(axis), field)

\* a discretization-scoped subexpression whose child holds an operator binding
Jacobian ==
    CommonSubexpression(Sum(<<OperatorBinding(RefMassOperator, u), v>>), "jac",
                        "DISCRETIZATION")

\* discretization-scoped subexpressions that hold another one; the second has
\* the child of the first under another prefix
AreaElement == CommonSubexpression(Sum(<<Jacobian, u>>), "", "DISCRETIZATION")
Pseudoscalar == CommonSubexpression(Sum(<<Jacobian, u>>), "area", "DISCRETIZATION")

\* a discretization-scoped subexpression that holds a derivative
Metric == CommonSubexpression(Sum(<<Diff(0, u), Jacobian>>), "", "DISCRETIZATION")

Flux == CommonSubexpression(Sum(<<u, v>>), "flux", "EVALUATION")

\* an operator binding whose field is no variable
Mass == OperatorBinding(RefMassOperator, Sum(<<u, v>>))

\* evaluation-scoped subexpressions of a variable, of operator bindings and of
\* a sum, some met twice and one of them under two prefixes
Named ==
    Sum(<<CommonSubexpression(u, "same", "EVALUATION"),
          CommonSubexpression(Mass, "mass", "EVALUATION"), Flux,
          CommonSubexpression(Mass, "again", "EVALUATION"),
          CommonSubexpression(u, "same", "EVALUATION"), Flux>>)

Derivatives ==
    Sum(<<CommonSubexpression(Diff(1, u), "dy", "EVALUATION"), Diff(0, u),
          CommonSubexpression(Diff(0, u), "dx", "EVALUATION"),
          CommonSubexpression(Diff(1, u), "", "EVALUATION")>>)

\* an evaluation-scoped subexpression met first inside a discretization-scoped
\* one
Nested == Sum(<<CommonSubexpression(Sum(<<Flux, u>>), "inner", "DISCRETIZATION"), Flux>>)

\* indexed variables as the field of an operator and as a subexpression
Indexed ==
    Sum(<<OperatorBinding(RefMassOperator, Subscript(u, 0)),
          CommonSubexpression(Subscript(Flux, 1), "component", "EVALUATION"),
          OperatorBinding(RefMassOperator, Sum(<<Subscript(v, 0), u>>))>>)

\* calls of functions that are and that are not CFunctions, and subscripts
Calls ==
    Sum(<<OperatorBinding(RefMassOperator, Subscript(u, 0)),
          Call(FunctionSymbol("f"), <<u, Sum(<<u, v>>), Subscript(v, 1), Mass>>),
          Call(CFunction("sin"), <<Sum(<<u, Subscript(Flux, 0)>>)>>)>>)

\* subexpressions of both scopes and derivatives side by side
Mixed ==
    Sum(<<Jacobian, Flux, CommonSubexpression(Sum(<<u, u>>), "twice", "EVALUATION"),
          Diff(0, u), Diff(1, u)>>)

NestedCalls ==
    Sum(<<Call(FunctionSymbol("g"), <<Call(CFunction("sqrt"), <<Sum(<<u, v>>)>>), Jacobian>>),
          OperatorBinding(RefMassOperator, Call(CFunction("sin"), <<u>>))>>)

Expressions ==
    { u,
      Sum(<<Diff(0, u), Diff(1, u), Diff(2, u)>>),
      Sum(<<Diff(0, u), OperatorBinding(RefStiffnessTOperator(0), u), Diff(1, u),
            Diff(0, u)>>),
      Sum(<<Diff(0, u), Diff(1, v)>>),
      Diff(0, Sum(<<Diff(1, u), Diff(0, u)>>)),
      Sum(<<Jacobian, Jacobian>>),
      Sum(<<AreaElement, Jacobian, Jacobian>>),
      Sum(<<Jacobian, Pseudoscalar>>),
      AreaElement,
      Sum(<<Flux, OperatorBinding(RefMassOperator, Flux)>>),
      Sum(<<Metric, Diff(1, u), Jacobian>>),
      Sum(<<Diff(1, u), Metric, Diff(0, u)>>),
      Named, Derivatives, Nested, Indexed, Calls, NestedCalls, Mixed }

DiffOrders == {"ascending", "descending"}

\* --------------------------------------------- specification of compiling

\* a new discretization and no Code yet
InitCompile ==
    /\ instructions = <<>>
    /\ result = {}
    /\ last_schedule = None
    /\ static_schedule_attempts = InitialAttempts
    /\ pc = "idle"
    /\ error = ""
    /\ retval = NoValue
    /\ context = [n \in {} |-> n]
    /\ pre_assign_check = "none"
    /\ futures = <<>>
    /\ next_future_id = 0
    /\ done_insns = {}
    /\ force_future = FALSE
    /\ schedule = <<>>
    /\ position = 1
    /\ schedule_is_delay_free = TRUE
    /\ trace = <<>>
    /\ call = [mode |-> "idle", keys |-> {}, pre_schedule |-> None,
               pre_attempts |-> InitialAttempts, recorded_keys |-> {},
               recorded_run |-> NotRecorded,
               after_failed_replay |-> FALSE]
    /\ recorded = NotRecorded
    /\ failed_replays = 0
    /\ printed = {}
    /\ discr = NewDiscretization
    /\ compilations = <<>>
    /\ aggregation = NotAggregating
    /\ str_call = NotStringified

\* a new OperatorCompiler for the discretization compiles an expression
Compile(expr, diff_order) ==
    /\ Len(compilations) < MaxCompilations
    /\ \E compiled \in {OperatorCompiler_call(expr, discr, diff_order)} :
           /\ compilations' = Append(compilations, compiled)
           /\ discr' = compiled.discr
           /\ aggregation' = IF compiled.error # "" THEN NotAggregating
                             ELSE AggregationOf(compiled.eval_code, compiled.result, 0)
    /\ UNCHANGED <<str_vars, scheduler_vars>>

NextCompile == \E expr \in Expressions, diff_order \in DiffOrders : Compile(expr, diff_order)

SpecCompile == InitCompile /\ [][NextCompile]_vars

\* the compiler, then the aggregation pass on the evaluation-scoped stream as
\* at the call that OperatorCompiler.__call__ holds in a comment
NextCompileAggregate ==
    \/ \E expr \in Expressions : Compile(expr, "ascending")
    \/ StartAggregation
    \/ AggregateNext
    \/ FinishAggregation

SpecCompileAggregate == InitCompile /\ [][NextCompileAggregate]_vars

\* ------------------------------------ specification of the aggregation pass

\* aggregate_assignments is called on a list of instructions whose last name
\* is the result
InitAggregate ==
    /\ instructions = <<>>
    /\ result = {}
    /\ last_schedule = None
    /\ static_schedule_attempts = InitialAttempts
    /\ pc = "idle"
    /\ error = ""
    /\ retval = NoValue
    /\ context = [n \in {} |-> n]
    /\ pre_assign_check = "none"
    /\ futures = <<>>
    /\ next_future_id = 0
    /\ done_insns = {}
    /\ force_future = FALSE
    /\ schedule = <<>>
    /\ position = 1
    /\ schedule_is_delay_free = TRUE
    /\ trace = <<>>
    /\ call = [mode |-> "idle", keys |-> {}, pre_schedule |-> None,
               pre_attempts |-> InitialAttempts, recorded_keys |-> {},
               recorded_run |-> NotRecorded,
               after_failed_replay |-> FALSE]
    /\ recorded = NotRecorded
    /\ failed_replays = 0
    /\ printed = {}
    /\ discr = NewDiscretization
    /\ compilations = <<>>
    /\ \E insns \in InstructionLists(MaxInsns), max_vectors_in_batch_expr \in BatchLimits :
           aggregation = AggregationOf(insns, var(AName(MaxInsns)), max_vectors_in_batch_expr)
    /\ str_call = NotStringified

NextAggregate ==
    \/ StartAggregation
    \/ AggregateNext
    \/ FinishAggregation

SpecAggregate == InitAggregate /\ [][NextAggregate]_vars

\* ------------------------------------------------------------ Code.__str__

\* the names some instruction of the list assigns
Written(insns) == UNION { get_assignees(insns[k]) : k \in 1..Len(insns) }

\* dict((var_name, insn) for insn in self.instructions
\*      for var_name in insn.get_assignees()): the last writer of each name
var_to_writer(insns) ==
    [name \in Written(insns) |->
        CHOOSE k \in 1..Len(insns) :
            /\ name \in get_assignees(insns[k])
            /\ \A m \in (k + 1)..Len(insns) : name \notin get_assignees(insns[m])]

\* insert_insn(insn) with the locals st of __str__: the locals it may leave,
\* one for each order in which the loop may take the dependencies (a set is
\* iterated); path holds the instructions whose insert_insn has not returned:
\* meeting one of them again is a recursion without end
RECURSIVE insert_insn(_, _, _, _)
RECURSIVE insert_writers(_, _, _, _)
insert_insn(insns, i, path, st) ==
    IF st.error # "" \/ i \in st.added_insns THEN {st}
    ELSE IF i \in path THEN {[st EXCEPT !.error = "RecursionError"]}
    ELSE IF get_dependencies_raises(insns[i]) THEN {[st EXCEPT !.error = "TypeError"]}
    ELSE { IF after.error # "" THEN after
           ELSE [after EXCEPT !.ordered_insns = Append(@, i),
                              !.added_insns = @ \cup {i}] :
             after \in UNION { insert_writers(insns, deps, path \cup {i}, st) :
                                deps \in Orderings(get_dependencies(insns[i])) } }

\* for dep in insn.get_dependencies(): insert_insn(var_to_writer[dep.name]),
\* a name without a writer being passed over
insert_writers(insns, deps, path, st) ==
    IF deps = <<>> \/ st.error # "" THEN {st}
    ELSE UNION { insert_writers(insns, Tail(deps), path, next) :
                   next \in IF Head(deps) \in DOMAIN var_to_writer(insns)
                            THEN insert_insn(insns, var_to_writer(insns)[Head(deps)],
                                             path, st)
                            ELSE {st} }

\* for insn in self.instructions: insert_insn(insn)
RECURSIVE insert_all(_, _, _)
insert_all(insns, k, st) ==
    IF k > Len(insns) THEN {st}
    ELSE UNION { insert_all(insns, k + 1, next) : next \in insert_insn(insns, k, {}, st) }

\* the topological sort of Code.__str__ with its two assertions: the ways it
\* may end
Code_str(insns) ==
    { IF st.error # "" THEN [st EXCEPT !.pc = "raised"]
      ELSE IF Len(st.ordered_insns) # Len(insns)
               \/ Cardinality(st.added_insns) # Len(insns)
           THEN [st EXCEPT !.pc = "raised", !.error = "AssertionError"]
           ELSE [st EXCEPT !.pc = "returned"] :
        st \in insert_all(insns, 1, NotStringified) }

\* str(code) is called
Str ==
    /\ str_call.pc = "none"
    /\ \E outcome \in Code_str(instructions) : str_call' = outcome
    /\ UNCHANGED <<scheduler_vars, compiler_vars>>

NextStr == Str

SpecStr == Init /\ [][NextStr]_vars

\* ------------------------------------- vocabulary of claims about compiling

Compilations == 1..Len(compilations)

\* the positions in a stream of the instructions of a kind that assign name
Assigning(code, kind, name) ==
    { k \in 1..Len(code) : code[k].kind = kind /\ \E m \in 1..Len(code[k].names) : code[k].names[m] = name }

\* the positions of the instructions of a kind in a stream
OfKind(code, kind) == { k \in 1..Len(code) : code[k].kind = kind }

\* the encounters of compilation i with a discretization-scoped subexpression
\* with this child
DiscrEncounters(i, child) ==
    { k \in 1..Len(compilations[i].log) :
        /\ compilations[i].log[k].kind = "discr_cse"
        /\ compilations[i].log[k].expr.children[1] = child }

\* the children of the discretization-scoped subexpressions compilation i met
DiscrChildren(i) ==
    { compilations[i].log[k].expr.children[1] :
        k \in { k \in 1..Len(compilations[i].log) : compilations[i].log[k].kind = "discr_cse" } }

\* the discretization-scoped assignments for name, as (compilation, position)
ToDiscrAssignments(name) ==
    UNION { { <<i, k>> : k \in Assigning(compilations[i].discr_code,
                                         "ToDiscretizationScopedAssign", name) } :
            i \in Compilations }

\* every encounter of a discretization-scoped subexpression resolved it to the
\* name the discretization holds for its child, and only the first encounter
\* ever (of all compilations) did not find the name in the cache
CachedNameReused ==
    \A i \in Compilations : \A child \in DiscrChildren(i) :
        \A k \in DiscrEncounters(i, child) :
            /\ child \in DOMAIN discr.discr_scoped_subexpr_to_name
            /\ compilations[i].log[k].names = <<discr.discr_scoped_subexpr_to_name[child]>>
            /\ compilations[i].log[k].cached <=>
                   \/ child \in DOMAIN compilations[i].discr_before.discr_scoped_subexpr_to_name
                   \/ \E m \in DiscrEncounters(i, child) : m < k

\* no discretization-scoped assignment goes to the evaluation-scoped stream
NoneInEvalCode ==
    \A i \in Compilations : OfKind(compilations[i].eval_code, "ToDiscretizationScopedAssign") = {}

\* C18 as stated: for a discretization-scoped subexpression compiled against
\* one discretization, be it in one compilation or in several, exactly one
\* discretization-scoped assignment is emitted in total, and every encounter
\* after the first reuses the cached name.
C18_OneAssignmentInTotal ==
    /\ CachedNameReused
    /\ NoneInEvalCode
    /\ \A child \in DOMAIN discr.discr_scoped_subexpr_to_name :
           Cardinality(ToDiscrAssignments(discr.discr_scoped_subexpr_to_name[child])) = 1

\* C18 amended: exactly one in each compilation that meets the subexpression
\* (and none in the others), all under the one cached name.
C18_Amended ==
    /\ CachedNameReused
    /\ NoneInEvalCode
    /\ \A child \in DOMAIN discr.discr_scoped_subexpr_to_name : \A i \in Compilations :
           Cardinality(Assigning(compilations[i].discr_code, "ToDiscretizationScopedAssign",
                                 discr.discr_scoped_subexpr_to_name[child]))
               = IF child \in DiscrChildren(i) THEN 1 ELSE 0

C18_Witness ==
    /\ Len(compilations) = 2
    /\ compilations[1].expr # compilations[2].expr
    /\ \E child \in DiscrChildren(1) \cap DiscrChildren(2) :
           /\ Cardinality(DiscrEncounters(1, child)) = 3
           /\ Cardinality(ToDiscrAssignments(discr.discr_scoped_subexpr_to_name[child])) = 2
    /\ \E child \in DiscrChildren(1) \cap DiscrChildren(2) :
           /\ \E k \in DiscrEncounters(1, child), m \in DiscrEncounters(2, child) :
                  compilations[1].log[k].expr.prefix # compilations[2].log[m].expr.prefix
           /\ Cardinality(ToDiscrAssignments(discr.discr_scoped_subexpr_to_name[child])) = 2

\* the encounters of compilation i with a differential-operator binding of `group`
DiffEncounters(i, group) ==
    { k \in 1..Len(compilations[i].log) :
        compilations[i].log[k].kind = "diff" /\ compilations[i].log[k].expr \in group }

\* the bindings of compilation i that are equal to d except for the axis and
\* are applied to the field of d
Group(i, d) ==
    { e \in compilations[i].diff_ops :
        e.op.cls = d.op.cls /\ e.children[1] = d.children[1] }

\* the DiffBatchAssign instructions of compilation i, as (stream, position)
DiffBatches(i) ==
    { <<"discr", k>> : k \in OfKind(compilations[i].discr_code, "DiffBatchAssign") }
        \cup { <<"eval", k>> : k \in OfKind(compilations[i].eval_code, "DiffBatchAssign") }

BatchAt(i, at) ==
    IF at[1] = "discr" THEN compilations[i].discr_code[at[2]]
    ELSE compilations[i].eval_code[at[2]]

Range(seq) == { seq[k] : k \in 1..Len(seq) }

\* C19: in each compilation every group of differential-operator bindings is
\* lowered by exactly one DiffBatchAssign, with one distinct name per member
\* and the operators of the members; the first encounter of any member emits
\* it, and every later encounter of a member appends nothing and gets one of
\* its names.
C19_DiffBatching ==
    \A i \in Compilations :
        /\ \A d \in compilations[i].diff_ops :
               LET group == Group(i, d)
                   log == compilations[i].log
                   met == DiffEncounters(i, group)
                   first == CHOOSE k \in met : \A m \in met : k <= m
                   batches == { at \in DiffBatches(i) : BatchAt(i, at).names = log[first].names }
               IN  /\ met # {}
                   /\ ~log[first].cached
                   /\ Len(log[first].names) = Cardinality(group)
                   /\ Cardinality(Range(log[first].names)) = Cardinality(group)
                   /\ Cardinality(batches) = 1
                   /\ \A at \in batches :
                          /\ Range(BatchAt(i, at).operators) = { e.op : e \in group }
                          /\ Len(BatchAt(i, at).operators) = Cardinality(group)
                   /\ \A k \in met \ {first} :
                          /\ log[k].cached
                          /\ log[k].emitted = {}
                          /\ log[k].discr_after = log[k].discr_before
                          /\ log[k].eval_after = log[k].eval_before
                          /\ log[k].names[1] \in Range(log[first].names)
        /\ Cardinality(DiffBatches(i))
               = Cardinality({ Group(i, d) : d \in compilations[i].diff_ops })

C19_Witness ==
    /\ Len(compilations) = 2
    /\ \E d \in compilations[1].diff_ops :
           /\ Cardinality(Group(1, d)) = 3
           /\ Cardinality(DiffBatches(1)) = 1
           /\ Len(BatchAt(1, CHOOSE at \in DiffBatches(1) : TRUE).names) = 3
    /\ \E d \in compilations[2].diff_ops :
           /\ Cardinality(Group(2, d)) = 2
           /\ Cardinality(DiffEncounters(2, Group(2, d))) = 3
           /\ Cardinality(DiffBatches(2)) = 2

\* the discretization-scoped names compilation i met, and its encounters with
\* one of them
DiscrNames(i) ==
    { compilations[i].log[k].names[1] :
        k \in { k \in 1..Len(compilations[i].log) : compilations[i].log[k].kind = "discr_cse" } }

NameEncounters(i, name, generating_discr_code) ==
    { k \in 1..Len(compilations[i].log) :
        /\ compilations[i].log[k].kind = "discr_cse"
        /\ compilations[i].log[k].names = <<name>>
        /\ compilations[i].log[k].generating_discr_code = generating_discr_code }

\* C20: in each compilation the evaluation-scoped stream holds exactly one
\* FromDiscretizationScopedAssign for each discretization-scoped name met while
\* generating evaluation-scoped code, and none for a name met only while
\* generating discretization-scoped code; such an encounter appends nothing to
\* the evaluation-scoped stream, and the discretization-scoped stream holds no
\* such instruction.
C20_OneCopyPerName ==
    \A i \in Compilations :
        /\ OfKind(compilations[i].discr_code, "FromDiscretizationScopedAssign") = {}
        /\ \A k \in OfKind(compilations[i].eval_code, "FromDiscretizationScopedAssign") :
               compilations[i].eval_code[k].names[1] \in DiscrNames(i)
        /\ compilations[i].discr_result =
               { name \in DiscrNames(i) : NameEncounters(i, name, FALSE) # {} }
        /\ \A name \in DiscrNames(i) :
               /\ Cardinality(Assigning(compilations[i].eval_code,
                                        "FromDiscretizationScopedAssign", name))
                      = IF NameEncounters(i, name, FALSE) # {} THEN 1 ELSE 0
               /\ \A k \in NameEncounters(i, name, TRUE) :
                      /\ "FromDiscretizationScopedAssign" \notin compilations[i].log[k].emitted
                      /\ compilations[i].log[k].eval_after = compilations[i].log[k].eval_before

C20_Witness ==
    /\ Len(compilations) = 2
    /\ \E name \in DiscrNames(1) :
           /\ NameEncounters(1, name, TRUE) # {}
           /\ Cardinality(NameEncounters(1, name, FALSE)) = 2
           /\ Cardinality(Assigning(compilations[1].eval_code,
                                    "FromDiscretizationScopedAssign", name)) = 1
    /\ \E name \in DiscrNames(2) :
           /\ NameEncounters(2, name, TRUE) # {}
           /\ NameEncounters(2, name, FALSE) = {}
           /\ Assigning(compilations[2].eval_code, "FromDiscretizationScopedAssign", name) = {}

\* the stream an encounter appends to
CurrentCode(i, event) ==
    IF event.generating_discr_code THEN compilations[i].discr_code
    ELSE compilations[i].eval_code

\* the earlier encounters of compilation i with an evaluation-scoped
\* subexpression with the child of its k-th encounter
EarlierEvalEncounters(i, k) ==
    { j \in 1..(k - 1) :
        /\ compilations[i].log[j].kind = "eval_cse"
        /\ compilations[i].log[j].expr.children[1] = compilations[i].log[k].expr.children[1] }

\* C21: the first encounter of a compilation with an evaluation-scoped common
\* subexpression of some child appends, once the child is lowered, one Assign
\* of the lowered child to the stream of the current scope, and nothing when
\* the lowered child is a variable or a subscript; every later encounter with
\* a subexpression of that child returns the same variable and appends nothing
\* to either stream.
C21_EvalScopedCse ==
    \A i \in Compilations : \A k \in 1..Len(compilations[i].log) :
        compilations[i].log[k].kind = "eval_cse" =>
            LET event == compilations[i].log[k]
                code == CurrentCode(i, event)
                mid == IF event.generating_discr_code THEN event.discr_mid ELSE event.eval_mid
                after == IF event.generating_discr_code THEN event.discr_after
                         ELSE event.eval_after
                other_mid == IF event.generating_discr_code THEN event.eval_mid
                             ELSE event.discr_mid
                other_after == IF event.generating_discr_code THEN event.eval_after
                               ELSE event.discr_after
            IN  IF EarlierEvalEncounters(i, k) = {}
                THEN /\ other_after = other_mid
                     /\ IF IsVariableOrSubscript(event.lowered[1])
                        THEN after = mid /\ event.value = event.lowered[1]
                        ELSE /\ after = mid + 1
                             /\ event.value.kind = "var"
                             /\ code[after] = AssignExpr(event.value.name, event.lowered[1], 0)
                ELSE /\ \A j \in EarlierEvalEncounters(i, k) :
                            compilations[i].log[j].value = event.value
                     /\ event.discr_after = event.discr_before
                     /\ event.eval_after = event.eval_before

\* a compilation met a subexpression of a sum first in discretization-scoped
\* code and again in evaluation-scoped code, another one subexpressions of a
\* variable and of an operator binding twice
C21_Witness ==
    /\ \E i \in Compilations : \E k \in 1..Len(compilations[i].log) :
           /\ compilations[i].log[k].kind = "eval_cse"
           /\ ~compilations[i].log[k].generating_discr_code
           /\ \E j \in EarlierEvalEncounters(i, k) :
                  /\ compilations[i].log[j].generating_discr_code
                  /\ compilations[i].log[j].discr_after = compilations[i].log[j].discr_mid + 1
    /\ \E i \in Compilations : \E k, m \in 1..Len(compilations[i].log) :
           /\ compilations[i].log[k].kind = "eval_cse"
           /\ compilations[i].log[k].expr.children[1].kind = "var"
           /\ EarlierEvalEncounters(i, k) # {}
           /\ compilations[i].log[m].kind = "eval_cse"
           /\ compilations[i].log[m].expr.children[1].kind = "binding"
           /\ compilations[i].log[m].expr.prefix = "again"
           /\ EarlierEvalEncounters(i, m) # {}

\* a bare variable or an indexed variable
IsVariableOrIndexedVariable(expr) ==
    \/ expr.kind = "var"
    \/ expr.kind = "subscript" /\ expr.children[1].kind = "var"

\* the expressions the instructions of a stream hold, the field of a
\* DiffBatchAssign left out
HeldExpressions(code) ==
    UNION { { code[k].exprs[m] : m \in 1..Len(code[k].exprs) } :
                k \in { k \in 1..Len(code) : code[k].kind # "DiffBatchAssign" } }

\* the operator bindings and the calls of functions that are no CFunctions in
\* the instructions of a stream have variables or indexed variables as operands
OperandsAreVariables(code) ==
    \A held \in HeldExpressions(code) \cup { code[k].exprs[1] : k \in OfKind(code, "DiffBatchAssign") } :
        \A node \in Nodes(held) :
            (node.kind = "binding" \/ (node.kind = "call" /\ node.op.cls # "CFunction")) =>
                \A m \in 1..Len(node.children) :
                    IsVariableOrIndexedVariable(node.children[m])

\* the positions in a stream of the instructions that assign name
AssigningAny(code, name) ==
    { k \in 1..Len(code) : \E m \in 1..Len(code[k].names) : code[k].names[m] = name }

\* the operands of the operator bindings (differential ones apart) and of the
\* calls compilation i met: an operand the mapper rewrote to a variable or a
\* subscript stands in the instruction as it is, any other was assigned, after
\* the expression was met and before its own instruction, by one Assign of
\* the current stream to a name that no other instruction assigns and that is
\* no variable of the input, and the instruction holds that variable
OperandsWereAssigned(i) ==
    \A k \in 1..Len(compilations[i].log) :
        compilations[i].log[k].kind \in {"binding", "call"} =>
            LET event == compilations[i].log[k]
                code == CurrentCode(i, event)
                before == IF event.generating_discr_code THEN event.discr_before
                          ELSE event.eval_before
                mid == IF event.generating_discr_code THEN event.discr_mid ELSE event.eval_mid
            IN  \A m \in 1..Len(event.lowered) :
                    IF IsVariableOrSubscript(event.lowered[m])
                    THEN event.operands[m] = event.lowered[m]
                    ELSE /\ event.operands[m].kind = "var"
                         /\ \E at \in (before + 1)..mid :
                                code[at] = AssignExpr(event.operands[m].name, event.lowered[m], 0)
                         /\ Cardinality(AssigningAny(compilations[i].discr_code,
                                                     event.operands[m].name))
                              + Cardinality(AssigningAny(compilations[i].eval_code,
                                                         event.operands[m].name)) = 1
                         /\ event.operands[m] \notin Nodes(compilations[i].expr)

\* the field of every DiffBatchAssign is a variable or an indexed variable
DiffFieldsAreVariables(code) ==
    \A k \in OfKind(code, "DiffBatchAssign") : IsVariableOrIndexedVariable(code[k].exprs[1])

\* C22 as stated: every expression compiles, and in both Codes the field of
\* every operator binding, that of the differential operators of a
\* DiffBatchAssign included, and every argument of a call of a function that
\* is no CFunction is a bare or an indexed variable, every other operand
\* having been assigned to a new variable by an instruction of its own.
C22_Normalization ==
    \A i \in Compilations :
        /\ compilations[i].error = ""
        /\ OperandsAreVariables(compilations[i].discr_code)
        /\ OperandsAreVariables(compilations[i].eval_code)
        /\ OperandsWereAssigned(i)
        /\ DiffFieldsAreVariables(compilations[i].discr_code)
        /\ DiffFieldsAreVariables(compilations[i].eval_code)

\* no name is assigned twice by the instructions of a stream
NoNameTwice(code) ==
    \A k, l \in 1..Len(code) :
        \A m \in 1..Len(code[k].names) : \A n \in 1..Len(code[l].names) :
            code[k].names[m] = code[l].names[n] => k = l /\ m = n

FeedsDirectly(insn, other) ==
    Emitted_get_dependencies(other) \cap get_var_assignees(insn) # {}

\* the instructions among insns that one of from feeds directly
Fed(insns, from) == { other \in insns : \E insn \in from : FeedsDirectly(insn, other) }

\* found and all that it feeds, directly or not
RECURSIVE FedClosure(_, _)
FedClosure(insns, found) ==
    IF Fed(insns, found) \subseteq found THEN found
    ELSE FedClosure(insns, found \cup Fed(insns, found))

\* insn feeds other through at least one instruction in between
FeedsThroughOthers(insns, insn, other) ==
    other \in FedClosure(insns, Fed(insns, Fed(insns, {insn})))

\* no instruction feeds itself
Acyclic(insns) == \A insn \in insns : insn \notin FedClosure(insns, Fed(insns, {insn}))

InsnsOf(seq) == { seq[k] : k \in 1..Len(seq) }

\* the instructions as they stand during and after the pass
CurrentInsns ==
    IF aggregation.pc = "done" THEN InsnsOf(aggregation.output)
    ELSE InsnsOf(aggregation.unprocessed_assigns) \cup InsnsOf(aggregation.processed_assigns)
             \cup InsnsOf(aggregation.other_insns)

\* C25 as stated: of two assignments that the pass merges, neither feeds the
\* other, be it directly or through other instructions.
C25_NoMergeAlongPath ==
    \A k \in 1..Len(aggregation.merges) :
        LET merge == aggregation.merges[k]
        IN  /\ ~FeedsDirectly(merge.my_assign, merge.other_assign)
            /\ ~FeedsDirectly(merge.other_assign, merge.my_assign)
            /\ ~FeedsThroughOthers(InsnsOf(merge.insns), merge.my_assign, merge.other_assign)
            /\ ~FeedsThroughOthers(InsnsOf(merge.insns), merge.other_assign, merge.my_assign)

\* C25 amended: of two assignments that the pass merges, neither feeds the
\* other through instructions in between; one may feed the other directly.
C25_Amended ==
    \A k \in 1..Len(aggregation.merges) :
        LET merge == aggregation.merges[k]
        IN  /\ ~FeedsThroughOthers(InsnsOf(merge.insns), merge.my_assign, merge.other_assign)
            /\ ~FeedsThroughOthers(InsnsOf(merge.insns), merge.other_assign, merge.my_assign)

\* the pass has merged an assignment with one that it depends on directly,
\* having passed over a candidate that feeds it through another instruction
C25_Witness ==
    /\ aggregation.pc = "done"
    /\ \E k \in 1..Len(aggregation.merges) :
           FeedsDirectly(aggregation.merges[k].other_assign, aggregation.merges[k].my_assign)
    /\ \E passed \in aggregation.rejected :
           FeedsThroughOthers(InsnsOf(aggregation.instructions), passed.other_assign,
                              passed.my_assign)

\* C26: the instruction list of the pass, the input being acyclic, is acyclic
\* after every merge and as returned, and the pass does not end in the error
\* of an impossible assignment.
C26_StaysAcyclic ==
    /\ aggregation.pc \in {"greedy", "done"} => Acyclic(CurrentInsns)
    /\ aggregation.pc # "raised"

\* the pass has returned after two merges, the second with an assignment it
\* had passed over before
C26_Witness ==
    /\ aggregation.pc = "done"
    /\ Acyclic(InsnsOf(aggregation.instructions))
    /\ Len(aggregation.merges) = 2
    /\ \E passed \in aggregation.rejected :
           passed.other_assign = aggregation.merges[2].other_assign

\* the (name, expression) pairs of the assignments of a list, with the place
\* of each
PairsOf(seq) ==
    UNION { { [name |-> seq[k].names[m], expr |-> seq[k].exprs[m], insn |-> k, at |-> m] :
                m \in 1..Len(seq[k].names) } :
            k \in { k \in 1..Len(seq) : IsAssign(seq[k]) } }

AllAssignees(seq) == UNION { get_assignees(seq[k]) : k \in 1..Len(seq) }

\* C27: in the list the pass returns, every (name, expression) pair of an
\* assignment given stands in one assignment, once, and no other pair does;
\* the names assigned are those assigned before; the instructions that are no
\* assignments are the ones given, unchanged and in their order.
C27_ProgramPreserved ==
    aggregation.pc = "done" =>
        /\ \A given \in PairsOf(aggregation.instructions) :
               Cardinality({ pair \in PairsOf(aggregation.output) :
                               pair.name = given.name /\ pair.expr = given.expr }) = 1
        /\ Cardinality(PairsOf(aggregation.output))
               = Cardinality(PairsOf(aggregation.instructions))
        /\ \A k \in 1..Len(aggregation.output) :
               Len(aggregation.output[k].names)
                   = IF aggregation.output[k].kind = "FromDiscretizationScopedAssign" THEN 1
                     ELSE IF aggregation.output[k].kind = "DiffBatchAssign"
                          THEN Len(aggregation.output[k].operators)
                          ELSE Len(aggregation.output[k].exprs)
        /\ AllAssignees(aggregation.output) = AllAssignees(aggregation.instructions)
        /\ SelectSeq(aggregation.output, LAMBDA insn : ~IsAssign(insn))
               = SelectSeq(aggregation.instructions, LAMBDA insn : ~IsAssign(insn))

\* the pass has returned a merged assignment with a name that is not used
\* outside of it, next to an instruction that is no assignment
C27_Witness ==
    /\ aggregation.pc = "done"
    /\ aggregation.merges # <<>>
    /\ aggregation.other_insns # <<>>
    /\ \E k \in 1..Len(aggregation.output) :
           /\ IsAssign(aggregation.output[k])
           /\ Len(aggregation.output[k].names) > 1
           /\ \E m \in 1..Len(aggregation.output[k].names) :
                  aggregation.output[k].do_not_return[m]

\* the names of the free variables of an expression
FreeVariableNames(expr) == { node.name : node \in dep_mapper(expr) }

\* the names a Code's instructions assign
AssignedIn(code) == UNION { get_assignees(code[k]) : k \in 1..Len(code) }

\* the names a Code's instructions depend on
NeededIn(code) ==
    { dep.name : dep \in UNION { Emitted_get_dependencies(code[k]) :
                                    k \in 1..Len(code) } }

\* the names a Code depends on that it neither assigns nor finds among the
\* free variables of the compiled expression
Unbound(code, expr) == NeededIn(code) \ (AssignedIn(code) \cup FreeVariableNames(expr))

\* C33: every name an instruction of the evaluation-scoped Code depends on is
\* a free variable of the compiled expression or is assigned by an
\* instruction of that Code, and likewise for the discretization-scoped Code.
C33_CodesSelfContained ==
    \A i \in Compilations :
        /\ Unbound(compilations[i].eval_code, compilations[i].expr) = {}
        /\ Unbound(compilations[i].discr_code, compilations[i].expr) = {}

\* the encounters of compilation i that lowered the child of a
\* discretization-scoped common subexpression
DiscrLowerings(i) ==
    { k \in 1..Len(compilations[i].log) :
        /\ compilations[i].log[k].kind = "discr_cse"
        /\ "ToDiscretizationScopedAssign" \in compilations[i].log[k].emitted }

\* the encounters that appended an instruction for the expression itself once
\* its operands were lowered
OwnInstruction(i) ==
    { k \in 1..Len(compilations[i].log) :
        /\ compilations[i].log[k].kind \in {"eval_cse", "binding", "call"}
        /\ \/ compilations[i].log[k].eval_mid < compilations[i].log[k].eval_after
           \/ compilations[i].log[k].discr_mid < compilations[i].log[k].discr_after }

\* the encounters that appended a DiffBatchAssign
OwnBatch(i) ==
    { k \in 1..Len(compilations[i].log) :
        /\ compilations[i].log[k].kind = "diff"
        /\ ~compilations[i].log[k].cached }

\* the stream the mode of an encounter selects, up to the end of the encounter
StreamOf(i, k) ==
    IF compilations[i].log[k].generating_discr_code
    THEN SubSeq(compilations[i].discr_code, 1, compilations[i].log[k].discr_after)
    ELSE SubSeq(compilations[i].eval_code, 1, compilations[i].log[k].eval_after)

\* C34: while the child of a discretization-scoped common subexpression is
\* lowered, instructions are appended to the discretization-scoped stream
\* only (the evaluation-scoped stream gains at most the one copy of the name
\* afterwards); every expression met in evaluation mode, after such a
\* lowering too, has its own instruction appended to the evaluation-scoped
\* stream, and every expression met in discretization mode to the other one.
C34_ModeTravelsWithCall ==
    \A i \in Compilations :
        /\ \A k \in DiscrLowerings(i) :
               LET e == compilations[i].log[k]
               IN  /\ e.discr_after > e.discr_before
                   /\ compilations[i].discr_code[e.discr_after].kind =
                          "ToDiscretizationScopedAssign"
                   /\ compilations[i].discr_code[e.discr_after].names = e.names
                   /\ e.eval_after = e.eval_before
                          + (IF "FromDiscretizationScopedAssign" \in e.emitted
                             THEN 1 ELSE 0)
                   /\ "FromDiscretizationScopedAssign" \in e.emitted
                          <=> ~e.generating_discr_code /\ e.eval_after > e.eval_before
        /\ \A k \in OwnInstruction(i) :
               LET e == compilations[i].log[k]
               IN  /\ IF e.generating_discr_code
                      THEN e.eval_mid = e.eval_after
                      ELSE e.discr_mid = e.discr_after
                   /\ StreamOf(i, k)[Len(StreamOf(i, k))].names = <<e.value.name>>
        /\ \A k \in OwnBatch(i) :
               LET e == compilations[i].log[k]
               IN  /\ StreamOf(i, k) # <<>>
                   /\ StreamOf(i, k)[Len(StreamOf(i, k))].kind = "DiffBatchAssign"
                   /\ StreamOf(i, k)[Len(StreamOf(i, k))].names = e.names

\* a discretization-scoped subexpression whose child took instructions of its
\* own was lowered in evaluation mode, and an expression met after it got
\* its instruction in the evaluation-scoped stream
C34_Witness ==
    \E i \in Compilations :
        \E k \in DiscrLowerings(i), later \in OwnInstruction(i) :
            /\ ~compilations[i].log[k].generating_discr_code
            /\ compilations[i].log[k].discr_after
                   >= compilations[i].log[k].discr_before + 2
            /\ later > k
            /\ ~compilations[i].log[later].generating_discr_code
            /\ compilations[i].log[later].kind = "eval_cse"
            /\ compilations[i].log[later].eval_before
                   >= compilations[i].log[k].eval_after
            /\ \E inner \in OwnInstruction(i) :
                   /\ inner < k
                   /\ compilations[i].log[inner].generating_discr_code

\* the variables both instructions depend on
SharedInputs(insn, other) ==
    Emitted_get_dependencies(insn) \cap Emitted_get_dependencies(other)

\* the instructions that now hold the names of both assignments of a merge
HoldingBoth(merge) ==
    { insn \in CurrentInsns :
        get_assignees(merge.my_assign) \cup get_assignees(merge.other_assign)
            \subseteq get_assignees(insn) }

\* C35: two assignments that the pass merged had the same priority, and the
\* instruction that holds their names, during the pass and in its output,
\* has that priority.
C35_SamePriority ==
    aggregation.pc \in {"greedy", "done"} =>
        \A k \in 1..Len(aggregation.merges) :
            LET merge == aggregation.merges[k]
            IN  /\ merge.my_assign.priority = merge.other_assign.priority
                /\ HoldingBoth(merge) # {}
                /\ \A insn \in HoldingBoth(merge) :
                       insn.priority = merge.my_assign.priority

\* the pass has returned a merged assignment of priority 1, the input holding
\* an assignment of priority 0 that reads the same variable
C35_Witness ==
    /\ aggregation.pc = "done"
    /\ \E k \in 1..Len(aggregation.merges) :
           /\ aggregation.merges[k].my_assign.priority = 1
           /\ \E m \in 1..Len(aggregation.instructions) :
                  /\ IsAssign(aggregation.instructions[m])
                  /\ aggregation.instructions[m].priority = 0
                  /\ SharedInputs(aggregation.merges[k].my_assign,
                                  aggregation.instructions[m]) # {}
    /\ \E insn \in InsnsOf(aggregation.output) :
           insn.priority = 1 /\ Len(insn.names) = 2

\* C36 as stated: of two assignments that the pass merges, one depends on a
\* name the other assigns; assignments that only read the same inputs are not
\* merged.
C36_DataRelationship ==
    \A k \in 1..Len(aggregation.merges) :
        \/ FeedsDirectly(aggregation.merges[k].my_assign, aggregation.merges[k].other_assign)
        \/ FeedsDirectly(aggregation.merges[k].other_assign, aggregation.merges[k].my_assign)

\* C36 amended: of two assignments that the pass merges, one depends on a name
\* the other assigns or both depend on the same variable; assignments with
\* neither relationship are not merged.
C36_Amended ==
    \A k \in 1..Len(aggregation.merges) :
        \/ FeedsDirectly(aggregation.merges[k].my_assign, aggregation.merges[k].other_assign)
        \/ FeedsDirectly(aggregation.merges[k].other_assign, aggregation.merges[k].my_assign)
        \/ SharedInputs(aggregation.merges[k].my_assign,
                        aggregation.merges[k].other_assign) # {}

\* two assignments without a relationship, of one priority and neither feeding
\* the other in any way
Unrelated(insns, insn, other) ==
    /\ insn # other
    /\ IsAssign(insn) /\ IsAssign(other)
    /\ flop_count(insn) > 0 /\ flop_count(other) > 0
    /\ insn.priority = other.priority
    /\ SharedInputs(insn, other) = {}
    /\ ~(other \in FedClosure(insns, {insn}))
    /\ ~(insn \in FedClosure(insns, {other}))

\* the pass has returned after merging two assignments that only read the
\* same variable, the input holding two assignments without a relationship
C36_Witness ==
    /\ aggregation.pc = "done"
    /\ \E k \in 1..Len(aggregation.merges) :
           /\ ~FeedsDirectly(aggregation.merges[k].my_assign,
                             aggregation.merges[k].other_assign)
           /\ ~FeedsDirectly(aggregation.merges[k].other_assign,
                             aggregation.merges[k].my_assign)
    /\ \E insn, other \in InsnsOf(aggregation.instructions) :
           /\ Unrelated(InsnsOf(aggregation.instructions), insn, other)
           /\ \A held \in InsnsOf(aggregation.output) :
                  ~(get_assignees(insn) \cup get_assignees(other)
                        \subseteq get_assignees(held))

\* the number of distinct names the two assign plus the number of distinct
\* variables the two depend on
VectorCount(insn, other) ==
    Cardinality(get_assignees(insn) \cup get_assignees(other))
        + Cardinality(Emitted_get_dependencies(insn) \cup Emitted_get_dependencies(other))

\* C37: with a batch limit M, no two assignments are merged whose distinct
\* assignees and distinct dependencies number more than M together; a
\* candidate over the limit is skipped, not merged, and the candidates after
\* it are still tried.
C37_BatchLimit ==
    aggregation.max_vectors_in_batch_expr # 0 =>
        /\ \A k \in 1..Len(aggregation.merges) :
               VectorCount(aggregation.merges[k].my_assign,
                           aggregation.merges[k].other_assign)
                   <= aggregation.max_vectors_in_batch_expr
        /\ \A pair \in aggregation.skipped :
               /\ VectorCount(pair.my_assign, pair.other_assign)
                      > aggregation.max_vectors_in_batch_expr
               /\ \A k \in 1..Len(aggregation.merges) :
                      ~(/\ aggregation.merges[k].my_assign = pair.my_assign
                        /\ aggregation.merges[k].other_assign = pair.other_assign)

\* the pass has skipped a candidate for the limit and merged the popped
\* assignment with a later candidate
C37_Witness ==
    /\ aggregation.pc = "done"
    /\ aggregation.max_vectors_in_batch_expr # 0
    /\ \E pair \in aggregation.skipped, k \in 1..Len(aggregation.merges) :
           /\ aggregation.merges[k].my_assign = pair.my_assign
           /\ aggregation.merges[k].other_assign # pair.other_assign

\* one of the right-hand sides of an assignment is zero
AssignsZero(insn) == \E k \in 1..Len(insn.exprs) : is_zero(insn.exprs[k])

\* the assignments given to the pass
GivenAssigns == { insn \in InsnsOf(aggregation.instructions) : IsAssign(insn) }

\* C38: an assignment goes to the processed ones before the greedy loop, and
\* is returned with its own names only, if and only if it has no flops or
\* assigns a zero; every other assignment is among those the greedy loop
\* works on.
C38_ZeroBypass ==
    aggregation.pc \in {"greedy", "done"} =>
        \A insn \in GivenAssigns :
            /\ insn \in aggregation.bypassed
                   <=> (flop_count(insn) = 0 \/ AssignsZero(insn))
            /\ (aggregation.pc = "done" /\ insn \in aggregation.bypassed)
                   => \E held \in InsnsOf(aggregation.output) :
                          get_assignees(held) = get_assignees(insn)

\* the name is a dependency of an instruction of the output other than the
\* k-th
UsedByAnother(output, k, name) ==
    \E j \in 1..Len(output) :
        j # k /\ var(name) \in Emitted_get_dependencies(output[j])

\* the name is part of the result given to the pass
InResult(name) == var(name) \in dep_mapper(aggregation.result)

AcyclicCode ==
    \A i \in Indices : i \notin Origins({ j \in Indices : DependsOn(i, j) }, Len(instructions))

\* the instructions with every priority set to the same value
WithoutPriorities(insns) == [k \in 1..Len(insns) |-> [insns[k] EXCEPT !.priority = 0]]

\* the place of instruction i in the order built
PlaceOf(i) == CHOOSE k \in 1..Len(str_call.ordered_insns) : str_call.ordered_insns[k] = i

\* the order built holds every instruction once and each one after the
\* writers of its dependencies
OrderIsTopological ==
    /\ Len(str_call.ordered_insns) = Len(instructions)
    /\ \A i \in Indices :
           Cardinality({ k \in 1..Len(str_call.ordered_insns) :
                           str_call.ordered_insns[k] = i }) = 1
    /\ \A i, j \in Indices : DependsOn(i, j) => PlaceOf(j) < PlaceOf(i)

\* C40: for an acyclic instruction list Code.__str__ builds an order (its
\* assertions hold) that holds every instruction once and each one after
\* the writer of each of its dependencies, and the orders it may build are
\* those it may build for the list with all priorities equal.
C40_TopologicalStr ==
    (AcyclicCode /\ str_call.pc # "none") =>
        /\ str_call.pc = "returned"
        /\ OrderIsTopological
        /\ Code_str(instructions) = Code_str(WithoutPriorities(instructions))

====
